---- MODULE Spec2Model ----
(***************************************************************************)
(* State-machine model of the paper harvesting pipeline                    *)
(* (DianaZagirova/download_agent): the retrying request gateways           *)
(* (safe_ncbi_call, enrich_with_openalex), the record store                *)
(* (PaperDatabase) and the batch orchestrator (collect_papers /            *)
(* process_batch).                                                         *)
(*                                                                         *)
(* Three specifications share the variables:                               *)
(*   SpecGw    - one caller issuing gateway calls, one upstream response   *)
(*               per step;                                                 *)
(*   SpecStore - upserts and lookups on the papers table;                  *)
(*   Spec      - runs of collect_papers with NUM_THREADS batch workers.    *)
(***************************************************************************)
EXTENDS Integers, Sequences, FiniteSets, TLC

(***************************************************************************)
(* Program constants                                                       *)
(***************************************************************************)
\* src/src/config.py:152
MAX_RETRIES == 5
\* src/src/config.py:153
RETRY_DELAY == 3
\* src/src/config.py:71
NUM_THREADS == 2
\* src/src/config.py:73
CHECKPOINT_EVERY == 10
\* the floor of batches_per_credential, src/main.py:324
MinBatchesPerCredential == 10

(***************************************************************************)
(* Bounds of the model                                                     *)
(***************************************************************************)
\* len(NCBI_CREDENTIALS): as many identities as the environment configures
NumCreds == 2
\* BATCH_SIZE (src/src/config.py:72), scaled down
BatchSize == 3
\* the longest list search_pubmed returns
NumPmids == 4
\* runs of collect_papers against the same store
MaxRuns == 2
NumCallers == 2
MaxRequests == 3
MaxClock == 50
NumInstances == 2
MaxOps == 2
MaxCorpus == 4
NumYears == 2
NumMonths == 2
MaxSearches == 2
MaxSections == 6
MaxFtSections == 2
MaxEnrich == 3
MaxWorks == 2
MaxDupRows == 3
NumIdThreads == 2
MaxIdCalls == 2
MaxSignals == 2
MaxProactive == 1
NumDates == 3
MaxChunks == 12
NumStoreThreads == 2
MaxStoreCalls == 2
NumFetchIds == 2
MaxNew == 3

NULL == "NULL"

VARIABLES
    \* ---- gateway (src/src/pubmed_extractor.py, src/src/openalex_extractor.py, src/src/config.py)
    credIdx,      \* config._current_credential_index
    gwPc,         \* "idle" | "try" | "done": position of the call in progress
    gwKind,       \* "ncbi" (safe_ncbi_call) | "openalex" (enrich_with_openalex)
    gwAttempt,    \* the loop variable `attempt`
    gwHist,       \* upstream responses received by the call so far
    gwSleeps,     \* durations of the time.sleep back-offs of the call
    gwRot,        \* rotate_credentials calls made by the call
    gwResult,     \* value returned to the caller
    gwStartIdx,   \* credIdx when the call started
    \* ---- record store (src/src/database.py)
    papers,       \* the rows of table papers (pmid is its PRIMARY KEY)
    lastUp,       \* per pmid, the row written by the last upsert that returned True ({} if none)
    qId,          \* identifier of the paper_needs_enrichment call just made
    qRes,         \* its result: [needs |-> bool, paper |-> {record}, or {} for None]
    \* ---- orchestrator (src/main.py)
    pmid_list,    \* what search_pubmed returns for the query
    mainPc,       \* collect_papers: "idle" | "running" | "done" | "returned"
    runNo,        \* runs of collect_papers started so far
    skip_existing,\* the argument of the run
    query_id,     \* id of the query row of the run
    queries,      \* rows of table queries (AUTOINCREMENT id)
    stats,        \* CollectionStats of the run, with the local total_skipped
    nCompleted,   \* i + 1 of the as_completed loop
    futures,      \* per chunk: state and result of its process_batch task
    wk,           \* per executor thread: the locals of its process_batch call
    collection_runs, \* number of rows of table collection_runs
    failed_dois,  \* rows of table failed_dois (doi is its PRIMARY KEY)
    papersAtStart,\* the rows of papers when the run started
    \* ---- request pacing (safe_ncbi_call's gate, _check_and_wait_rate_limit)
    now,          \* time.time(), in ticks
    last_req_time,\* last_req_time[0] of pubmed_extractor
    semaphore,    \* free permits of the BoundedSemaphore
    oaLast,       \* _last_request_time of openalex_extractor
    oaLock,       \* holder of _openalex_lock, 0 when free
    rtPc,         \* per caller: "idle" | "ncbiWait" | "ncbiCall" | "oaWait"
    rtWake,       \* per caller: when its time.sleep ends
    sent,         \* the requests started so far: [svc, at]
    \* ---- result cache (src/query_cache.py)
    cacheFile,    \* query_cache.json: key -> entry
    qcLive,       \* per QueryCache object: constructed and still referenced
    qcCache,      \* per QueryCache object: self.cache
    qcLog,        \* per object: its set calls since construction or clear
    opLog,        \* every set and clear performed, in order
    lastGet,      \* the get just performed and what it returned
    \* ---- search (search_pubmed, _search_pubmed_with_date_splitting)
    sCorpus,      \* upstream: publication date of each matching record
    sSearches,    \* calls of search_pubmed so far
    sMax,         \* max_results
    sUseCache,    \* use_cache
    sPc,          \* "idle" | "count" | "page" | "date" | "month" | "returned"
    sBranch,      \* "none" | "cache" | "direct" | "date"
    sNum,         \* num_to_retrieve / target_count
    sPos,         \* start of the page loop / year of the year loop
    sMonth,       \* month of the month loop
    sAllIds,      \* all_ids (a list)
    sAllPmids,    \* all_pmids (a set)
    sFailed,      \* some upstream call of this search returned no handle
    sResult,      \* the list returned, {} while running
    \* ---- content validation (has_meaningful_content)
    hmSections,   \* sections_dict: its sections, as variants
    hmFlat,       \* len(full_text.strip())
    hmResult,     \* what has_meaningful_content returned, {} before the call
    \* ---- full text chain (try_all_fulltext_sources)
    ftMeta,       \* the record: its pmcid and doi
    ftPc,         \* "idle" | "xml" | "html" | "lookup" | "returned"
    ftOrigin,     \* the step of try_all_fulltext_sources under way: "pmcid" | "doi"
    ftTried,      \* the strategies attempted, in order
    ftResult,     \* the (full_text, sections) returned, {} for (None, None)
    \* ---- batch enrichment (batch_enrich_with_openalex)
    enIn,         \* metadata_list
    enPc,         \* "idle" | "done"
    enStatus,     \* how the batch request ended: "s200" | "s429" | "other" | "exc"
    enResults,    \* the DOIs of the works answered / found one by one
    enIndividual, \* the DOIs sent through enrich_with_openalex
    enOut,        \* the list returned
    \* ---- duplicate resolution (resolve_doi_duplicates.py)
    ddPapers,     \* the papers table of the database the script opens
    ddBefore,     \* the table when the script started
    ddPc,         \* "idle" | "done"
    ddStrategy,   \* --strategy
    ddApply,      \* --apply
    ddExport,     \* the duplicate groups written by the export strategy
    \* ---- caller identity (config._current_credential_index is credIdx)
    entrezEmail,  \* Entrez.email / Entrez.api_key: the identity requests go out under
    idPc,         \* per thread: "idle" | "attempt" | "rotRead" | "rotWrite" | "rotCreds" | "setEmail"
    idLocal,      \* per thread: the index it read in rotate_credentials
    idAttempt,    \* per thread: attempt of safe_ncbi_call
    idCalls,      \* per thread: gateway calls started (thread 0: proactive rotations)
    idSignals,    \* rate-limit answers so far
    idRotations,  \* rotate_credentials calls that have returned
    idLastReq,    \* the request just sent: by whom, under which identity, the pointer then
    \* ---- the as_completed loop of collect_papers and its checkpoints
    ckPc,         \* "idle" | "loop" | "done"
    ckTotal,      \* len(futures)
    ckDone,       \* i + 1: futures consumed so far
    ckStats,      \* stats: total_processed and failed_pubmed
    ckPrinted,    \* the i + 1 at which a checkpoint line was printed
    ckRows,       \* rows of collection_runs: the stats saved and the i + 1 then
    \* ---- the write methods of one PaperDatabase and its _lock
    mxLock,       \* the thread that holds self._lock, 0 when it is free
    mxPc,         \* per thread: "idle" | "acquire" | "execute" | "commit"
    mxOp,         \* per thread: the method it is in
    mxCalls,      \* per thread: methods called so far
    \* ---- the metadata fetch of process_batch
    mfPc,         \* "idle" | "bulk" | "individual" | "fetched" | "raised"
    mfNew,        \* pmids_to_process
    mfBulk,       \* the ids in the bulk response
    mfAll,        \* the keys of all_metadata
    mfMissing,    \* missing_pmids
    mfPos,        \* the place of the loop in missing_pmids
    mfCalls,      \* the calls of extract_pubmed_metadata: the id and whether it gave a record
    mfFailed      \* failed

gwVars == <<credIdx, gwPc, gwKind, gwAttempt, gwHist, gwSleeps, gwRot, gwResult, gwStartIdx>>

storeVars == <<papers, lastUp, qId, qRes>>

orchVars == <<pmid_list, mainPc, runNo, skip_existing, query_id, queries, stats, nCompleted,
              futures, wk, collection_runs, failed_dois, papersAtStart>>

rateVars == <<now, last_req_time, semaphore, oaLast, oaLock, rtPc, rtWake, sent>>

\* The components added after the gateway, the store and the orchestrator.
cacheVars == <<cacheFile, qcLive, qcCache, qcLog, opLog, lastGet>>

searchVars == <<sCorpus, sSearches, sMax, sUseCache, sPc, sBranch, sNum, sPos, sMonth,
                sAllIds, sAllPmids, sFailed, sResult>>

heurVars == <<hmSections, hmFlat, hmResult>>

ftVars == <<ftMeta, ftPc, ftOrigin, ftTried, ftResult>>

enVars == <<enIn, enPc, enStatus, enResults, enIndividual, enOut>>

extVars == <<rateVars, cacheVars, searchVars, heurVars, ftVars, enVars>>

ddVars == <<ddPapers, ddBefore, ddPc, ddStrategy, ddApply, ddExport>>

\* The offline tools and the components added last.
identVars == <<entrezEmail, idPc, idLocal, idAttempt, idCalls, idSignals, idRotations, idLastReq>>

ckVars == <<ckPc, ckTotal, ckDone, ckStats, ckPrinted, ckRows>>

mxVars == <<mxLock, mxPc, mxOp, mxCalls>>

mfVars == <<mfPc, mfNew, mfBulk, mfAll, mfMissing, mfPos, mfCalls, mfFailed>>

ext2Vars == <<ddVars, identVars, ckVars, mxVars, mfVars>>

vars == <<gwVars, storeVars, orchVars, extVars, ext2Vars>>

\* What a gateway step, a store step and an orchestrator step leave alone.
notGw == <<storeVars, orchVars, extVars, ext2Vars>>

notStore == <<gwVars, orchVars, extVars, ext2Vars>>

notOrch == <<gwPc, gwKind, gwAttempt, gwHist, gwSleeps, gwRot, gwResult, gwStartIdx,
             lastUp, qId, qRes, extVars, ext2Vars>>

notRate == <<gwVars, storeVars, orchVars, cacheVars, searchVars, heurVars, ftVars, enVars, ext2Vars>>

notCache == <<gwVars, storeVars, orchVars, rateVars, searchVars, heurVars, ftVars, enVars, ext2Vars>>

notHeur == <<gwVars, storeVars, orchVars, rateVars, cacheVars, searchVars, ftVars, enVars, ext2Vars>>

notEn == <<gwVars, storeVars, orchVars, rateVars, cacheVars, searchVars, heurVars, ftVars, ext2Vars>>

notFt == <<gwVars, storeVars, orchVars, rateVars, cacheVars, searchVars, heurVars, enVars, ext2Vars>>

\* A search step writes the cache file through an object of its own.
notSearch == <<gwVars, storeVars, orchVars, rateVars, qcLive, qcCache, qcLog, opLog, lastGet,
               heurVars, ftVars, enVars, ext2Vars>>

notDd == <<gwVars, storeVars, orchVars, extVars, identVars, ckVars, mxVars, mfVars>>

notCk == <<gwVars, storeVars, orchVars, extVars, ddVars, identVars, mxVars, mfVars>>

notMx == <<gwVars, storeVars, orchVars, extVars, ddVars, identVars, ckVars, mfVars>>

notMf == <<gwVars, storeVars, orchVars, extVars, ddVars, identVars, ckVars, mxVars>>

\* A step about the caller identity changes the pointer of the gateway.
notIdent == <<gwPc, gwKind, gwAttempt, gwHist, gwSleeps, gwRot, gwResult, gwStartIdx,
              storeVars, orchVars, extVars, ddVars, ckVars, mxVars, mfVars>>

(***************************************************************************)
(* RateLimitedGateway                                                      *)
(***************************************************************************)
RECURSIVE Pow2(_)
Pow2(n) == IF n = 0 THEN 1 ELSE 2 * Pow2(n - 1)

\* What the wrapped Entrez call can do, by the branch of safe_ncbi_call it takes:
\*   "ok"     the call returns a handle with content
\*   "empty"  the call returns a handle whose document holds no record (not found)
\*   "e429"   it raises, and the message matches '429' / 'Too Many Requests'
\*   "e404"   it raises an HTTP 404 (not found delivered as an error status)
\*   "eOther" it raises anything else (timeout, 5xx, ...)
NcbiResp == {"ok", "empty", "e429", "e404", "eOther"}

\* What requests.get can do in enrich_with_openalex, by branch.
OaResp == {"s200", "s404", "s429", "s5xx", "timeout", "exc"}

RotBug(i) == i

\* config.rotate_credentials: the next index, round-robin.
rotate_credentials(i) == (i + 1) % NumCreds

GwInit ==
    /\ credIdx = 0
    /\ gwPc = "idle"
    /\ gwKind = "ncbi"
    /\ gwAttempt = 0
    /\ gwHist = <<>>
    /\ gwSleeps = <<>>
    /\ gwRot = 0
    /\ gwResult = "pending"
    /\ gwStartIdx = 0

\* A caller enters a gateway call.  enrich_with_openalex returns the record
\* at once when it has no DOI.
GwStart(kind, hasDoi) ==
    /\ gwPc = "idle"
    /\ gwKind' = kind
    /\ gwAttempt' = 0
    /\ gwHist' = <<>>
    /\ gwSleeps' = <<>>
    /\ gwRot' = 0
    /\ gwStartIdx' = credIdx
    /\ IF kind = "openalex" /\ ~hasDoi
         THEN gwPc' = "done" /\ gwResult' = "unchanged"
         ELSE gwPc' = "try" /\ gwResult' = "pending"
    /\ UNCHANGED <<credIdx, notGw>>

\* The loop runs `for attempt in range(MAX_RETRIES)`; falling off its end
\* returns None (safe_ncbi_call) or the record as it is (enrich_with_openalex).
LastAttemptBug == MAX_RETRIES - 2

LastAttemptLate == MAX_RETRIES

LastAttempt == MAX_RETRIES - 1

GwNext(fallValue) ==
    /\ gwAttempt' = gwAttempt + 1
    /\ IF gwAttempt >= LastAttempt
         THEN gwPc' = "done" /\ gwResult' = fallValue
         ELSE gwPc' = "try" /\ UNCHANGED gwResult

GwReturn(value) ==
    /\ gwPc' = "done"
    /\ gwResult' = value
    /\ UNCHANGED <<gwAttempt, gwSleeps, gwRot, credIdx>>

\* One iteration of the loop of safe_ncbi_call.
safe_ncbi_call(resp) ==
    /\ gwPc = "try"
    /\ gwKind = "ncbi"
    /\ gwHist' = Append(gwHist, resp)
    /\ UNCHANGED <<gwKind, gwStartIdx, notGw>>
    /\ CASE resp \in {"ok", "empty"} ->
              GwReturn(resp)
         [] resp = "e429" ->
              /\ credIdx' = rotate_credentials(credIdx)
              /\ gwRot' = gwRot + 1
              /\ gwSleeps' = Append(gwSleeps, RETRY_DELAY * Pow2(gwAttempt))
              /\ GwNext("None")
         [] OTHER ->
              IF gwAttempt < MAX_RETRIES - 1
                THEN /\ gwSleeps' = Append(gwSleeps, RETRY_DELAY)
                     /\ GwNext("None")
                     /\ UNCHANGED <<gwRot, credIdx>>
                ELSE GwReturn("None")

\* Status-code dispatch of enrich_with_openalex; the 404 arm returns the record.
OaIs404Bug(resp) == FALSE

OaIs404(resp) == resp = "s404"

\* One iteration of the loop of enrich_with_openalex.
enrich_with_openalex(resp) ==
    /\ gwPc = "try"
    /\ gwKind = "openalex"
    /\ gwHist' = Append(gwHist, resp)
    /\ UNCHANGED <<gwKind, gwStartIdx, notGw>>
    /\ CASE resp = "s200" ->
              GwReturn("enriched")
         [] OaIs404(resp) ->
              GwReturn("unchanged")
         [] OTHER ->
              IF gwAttempt < MAX_RETRIES - 1
                THEN /\ gwSleeps' = Append(gwSleeps,
                           CASE resp = "s429" -> RETRY_DELAY * Pow2(gwAttempt)
                             [] resp \in {"s5xx", "s404"} -> RETRY_DELAY * (1 + gwAttempt)
                             [] OTHER -> RETRY_DELAY)
                     /\ GwNext("unchanged")
                     /\ UNCHANGED <<gwRot, credIdx>>
                ELSE GwReturn("unchanged")

\* The caller takes the value; the identity pointer stays where the call left it.
GwDone ==
    /\ gwPc = "done"
    /\ gwPc' = "idle"
    /\ UNCHANGED <<credIdx, gwKind, gwAttempt, gwHist, gwSleeps, gwRot, gwResult, gwStartIdx, notGw>>

GwStep ==
    \/ \E kind \in {"ncbi", "openalex"}, hasDoi \in BOOLEAN : GwStart(kind, hasDoi)
    \/ \E resp \in NcbiResp : safe_ncbi_call(resp)
    \/ \E resp \in OaResp : enrich_with_openalex(resp)
    \/ GwDone

StoreIdle ==
    /\ papers = {}
    /\ lastUp = [p \in {} |-> {}]
    /\ qId = NULL
    /\ qRes = [needs |-> FALSE, paper |-> {}]

(***************************************************************************)
(* RecordStore                                                             *)
(***************************************************************************)
\* Python truthiness of an Optional[str]: None and "" are falsy.
Falsy(x) == x \in {NULL, ""}

\* str.strip() on the string values of the model (" " is whitespace only).
Strip(x) == IF x = " " THEN "" ELSE x

\* The VALUES tuple of insert_paper: full_text_sections is stored as JSON
\* only when truthy; parsing_status, embedding and YAKE_keywords are read
\* with getattr from a dataclass that has no such attribute, so the columns
\* (field extra) are written NULL.
ToRow(m) ==
    [pmid |-> m.pmid, pmcid |-> m.pmcid, doi |-> m.doi,
     abstract |-> m.abstract, full_text |-> m.full_text,
     sections |-> IF m.sections = "secs" THEN "json" ELSE NULL,
     is_ft |-> m.is_ft, oa |-> m.oa, query_id |-> m.query_id,
     extra |-> NULL]

\* _row_to_metadata: a NULL full_text_sections is read back as {}.
FromRow(r) ==
    [pmid |-> r.pmid, pmcid |-> r.pmcid, doi |-> r.doi,
     abstract |-> r.abstract, full_text |-> r.full_text,
     sections |-> IF r.sections # NULL THEN "secs" ELSE "{}",
     is_ft |-> r.is_ft, oa |-> r.oa, query_id |-> r.query_id]

\* A plain INSERT: the PRIMARY KEY rejects a second row for the pmid.
InsertNoReplace(tbl, m) ==
    IF \E r \in tbl : r.pmid = m.pmid THEN tbl ELSE tbl \cup {ToRow(m)}

\* INSERT OR REPLACE INTO papers: the row holding the pmid, if any, is
\* deleted and the new row inserted.
insert_paper(tbl, m) ==
    {r \in tbl : r.pmid # m.pmid} \cup {ToRow(m)}

\* get_paper: SELECT * FROM papers WHERE pmid = ? (None for a falsy pmid).
get_paper(tbl, pmid) ==
    IF Falsy(pmid) THEN {} ELSE {FromRow(r) : r \in {x \in tbl : x.pmid = pmid}}

\* get_paper_by_doi: SELECT * FROM papers WHERE doi = ?, fetchone(): one of
\* the rows holding the DOI.
get_paper_by_doi(tbl, doi) ==
    IF Falsy(doi) THEN {} ELSE {FromRow(r) : r \in {x \in tbl : x.doi = doi}}

AbstractOnly(paper) ==
    \/ Falsy(paper.abstract)
    \/ Strip(paper.abstract) = ""

\* The needs_enrichment expression of paper_needs_enrichment.
NeedsEnrichment(paper) ==
    \/ Falsy(paper.abstract)
    \/ Falsy(paper.full_text)
    \/ Strip(paper.abstract) = ""
    \/ paper.full_text = NULL

PneNeverFinds(tbl, identifier) == {[needs |-> FALSE, paper |-> {}]}

\* paper_needs_enrichment: the results it can return for an identifier
\* (several when the identifier is a DOI shared by several rows).
paper_needs_enrichment(tbl, identifier) ==
    LET byPmid == get_paper(tbl, identifier)
        found  == IF byPmid = {} /\ ~Falsy(identifier)
                    THEN get_paper_by_doi(tbl, identifier)
                    ELSE byPmid
    IN  IF found = {}
          THEN {[needs |-> FALSE, paper |-> {}]}
          ELSE {[needs |-> NeedsEnrichment(paper), paper |-> {paper}] : paper \in found}

StorePmids == {"p1", "p2"}

StoreDois == {"dA"}

\* Records the collectors hand to insert_paper: sections are set only
\* together with a full text (fetch_fulltext_for_paper, process_paper).
StoreRecords ==
    {[pmid |-> p, pmcid |-> NULL, doi |-> d, abstract |-> a,
      full_text |-> ft[1], sections |-> ft[2],
      is_ft |-> (ft[1] = "text"), oa |-> FALSE, query_id |-> 1] :
        p \in StorePmids, d \in StoreDois \cup {NULL}, a \in {NULL, " ", "text"},
        ft \in {<<NULL, "{}">>, <<"text", "secs">>, <<"text", NULL>>}}

StoreInit ==
    /\ papers = {}
    /\ lastUp = [p \in StorePmids |-> {}]
    /\ qId = NULL
    /\ qRes = [needs |-> FALSE, paper |-> {}]

\* The caller has used the result of its last lookup.
QForget ==
    /\ qId' = NULL
    /\ qRes' = [needs |-> FALSE, paper |-> {}]

\* db.insert_paper(m): under the lock, INSERT OR REPLACE and commit, True;
\* on an exception nothing is committed and it returns False.
Upsert(m, ok) ==
    /\ papers' = IF ok THEN insert_paper(papers, m) ELSE papers
    /\ lastUp' = IF ok THEN [lastUp EXCEPT ![m.pmid] = {ToRow(m)}] ELSE lastUp
    /\ QForget
    /\ UNCHANGED notStore

\* db.paper_needs_enrichment(identifier)
Query(identifier) ==
    /\ \E res \in paper_needs_enrichment(papers, identifier) : qRes' = res
    /\ qId' = identifier
    /\ UNCHANGED <<papers, lastUp, notStore>>

\* clean_abstract / clean_text_comprehensive keep a text or reduce it to "".
CleanOutcomes(x) == IF x = " " THEN {""} ELSE {x, ""}

\* scripts/helper_scripts/reclean_database.py, one paper of its loop: the
\* truthy abstract and full text are cleaned, and the paper is written back
\* when either changed.
Reclean(pmid, ok) ==
    /\ \E paper \in get_paper(papers, pmid) :
         \E ca \in (IF Falsy(paper.abstract) THEN {paper.abstract}
                    ELSE CleanOutcomes(paper.abstract)),
            cf \in (IF Falsy(paper.full_text) THEN {paper.full_text}
                    ELSE CleanOutcomes(paper.full_text)) :
              LET cleaned == [paper EXCEPT !.abstract = ca, !.full_text = cf]
              IN  /\ cleaned # paper
                  /\ papers' = IF ok THEN insert_paper(papers, cleaned) ELSE papers
                  /\ lastUp' = IF ok THEN [lastUp EXCEPT ![pmid] = {ToRow(cleaned)}]
                               ELSE lastUp
    /\ QForget
    /\ UNCHANGED notStore

StoreStep ==
    \/ \E m \in StoreRecords, ok \in BOOLEAN : Upsert(m, ok)
    \/ \E identifier \in StorePmids \cup StoreDois \cup {""} : Query(identifier)
    \/ \E pmid \in StorePmids, ok \in BOOLEAN : Reclean(pmid, ok)

(***************************************************************************)
(* BatchOrchestrator: collect_papers and process_batch                     *)
(***************************************************************************)
PmidPool == <<"p1", "p2", "p3", "p4", "p5", "p6">>

\* What PubMed holds for a pmid: p1 and p2 carry the same DOI, p1 also a
\* PMC id; p3 and p4 carry neither, and p3 has no abstract.
Catalog(pmid) ==
    CASE pmid = "p1" -> [doi |-> "dA", pmcid |-> "PMC1", abstract |-> "text"]
      [] pmid = "p2" -> [doi |-> "dA", pmcid |-> NULL, abstract |-> "text"]
      [] pmid = "p3" -> [doi |-> NULL, pmcid |-> NULL, abstract |-> NULL]
      [] pmid = "p4" -> [doi |-> NULL, pmcid |-> NULL, abstract |-> "text"]
      [] OTHER -> [doi |-> "dB", pmcid |-> "PMC5", abstract |-> "text"]

\* search_pubmed: the same list on every run of the query; either the first
\* ids of the pool (p1 and p2 fall into one batch), or NumPmids ids with p2
\* last (p1 and p2 fall into different batches).
SearchResults ==
    {SubSeq(PmidPool, 1, n) : n \in 0..(NumPmids - 1)}
        \cup {<<"p1">> \o SubSeq(PmidPool, 3, NumPmids) \o <<"p2">>}

\* batches = [pmid_list[i:i+BATCH_SIZE] for i in range(0, len(pmid_list), BATCH_SIZE)]
NumBatches == (Len(pmid_list) + BatchSize - 1) \div BatchSize

Batch(c) ==
    SubSeq(pmid_list, (c - 1) * BatchSize + 1,
           IF c * BatchSize < Len(pmid_list) THEN c * BatchSize ELSE Len(pmid_list))

\* batches_per_credential = max(10, len(batches) // len(NCBI_CREDENTIALS))
batches_per_credential ==
    IF NumBatches \div NumCreds > MinBatchesPerCredential
      THEN NumBatches \div NumCreds
      ELSE MinBatchesPerCredential

\* The tuple process_batch returns.
ZeroCounts ==
    [processed |-> 0, with_fulltext |-> 0, with_openalex |-> 0,
     failed |-> 0, skipped |-> 0, enriched |-> 0]

\* CollectionStats(query=query), and total_skipped = 0.
ZeroStats ==
    [total_found |-> 0, total_processed |-> 0, with_full_text |-> 0,
     without_full_text |-> 0, with_openalex |-> 0, failed_pubmed |-> 0,
     total_skipped |-> 0]

\* A thread of the executor with no task.
WkIdle ==
    [pc |-> "idle", chunk |-> 0, i |-> 0, pmids_to_process |-> <<>>,
     papers_to_enrich |-> <<>>, all_papers_final |-> <<>>, counts |-> ZeroCounts,
     fetched |-> {}, missing |-> {}, insertFailed |-> 0]

\* A submitted task: st is "queued" | "running" | "returned" | "raised";
\* fetched, missing and insertFailed record which new ids got their
\* metadata, which did not, and how many upserts of the batch returned False.
NewFuture ==
    [st |-> "queued", result |-> ZeroCounts, consumed |-> FALSE,
     fetched |-> {}, missing |-> {}, insertFailed |-> 0]

\* The record extract_pubmed_metadata(_batch) builds: is_full_text_pmc is
\* set as soon as the article carries a PMC id.
NewMetadata(pmid) ==
    [pmid |-> pmid, pmcid |-> Catalog(pmid).pmcid, doi |-> Catalog(pmid).doi,
     abstract |-> Catalog(pmid).abstract, full_text |-> NULL, sections |-> "{}",
     is_ft |-> (Catalog(pmid).pmcid # NULL), oa |-> FALSE, query_id |-> NULL]

\* try_all_fulltext_sources has a source to ask only for a PMC id or a DOI.
FullTextOutcomes(m) ==
    IF m.pmcid # NULL \/ ~Falsy(m.doi) THEN {TRUE, FALSE} ELSE {FALSE}

\* fetch_fulltext_for_paper, given whether a source returned a text.
fetch_fulltext_for_paper(m, found) ==
    IF found
      THEN [m EXCEPT !.full_text = "text", !.sections = "secs", !.is_ft = TRUE]
      ELSE m

ClassifyIgnoringSkip(existing, needs, skip) ==
    IF existing = {} THEN "new" ELSE IF needs THEN "enrich" ELSE "skip"

\* The if / elif / else of the classification loop of process_batch.
Classify(existing, needs, skip) ==
    IF existing = {} THEN "new" ELSE IF needs /\ ~skip THEN "enrich" ELSE "skip"

Range(s) == {s[i] : i \in 1..Len(s)}

\* The key a DOI gets in doi_to_metadata: a resolver prefix is cut off and
\* the rest lower-cased ("DA" is "dA" written in capitals).
CleanDoi(doi) == IF doi = "DA" THEN "dA" ELSE doi

\* The keys of doi_to_metadata in insertion order: each key once, at the
\* place of its first record.
DoiList(s) ==
    LET F[i \in 0..Len(s)] ==
          IF i = 0 THEN <<>>
          ELSE IF \E j \in 1..(i - 1) : CleanDoi(s[j].doi) = CleanDoi(s[i].doi)
                 THEN F[i - 1]
                 ELSE Append(F[i - 1], CleanDoi(s[i].doi))
    IN  F[Len(s)]

\* doi_to_metadata[doi]: each assignment overwrites, the last record wins.
DoiToMetadata(s, doi) ==
    s[CHOOSE i \in 1..Len(s) :
        /\ CleanDoi(s[i].doi) = doi
        /\ \A j \in (i + 1)..Len(s) : CleanDoi(s[j].doi) # doi]

\* A response that lists one work for each DOI of hits, in the order asked.
WorksFor(metadata_list, hits) ==
    SelectSeq(DoiList(SelectSeq(metadata_list, LAMBDA m : ~Falsy(m.doi))),
              LAMBDA d : d \in hits)

\* The 200 branch runs to its end unless reading a work raises: a work
\* whose doi is null makes work.get('doi', '').replace(...) raise.
Readable(results) == NULL \notin Range(results)

\* The works read before the one that raises.
RECURSIVE ReadPrefix(_)
ReadPrefix(results) ==
    IF results = <<>> \/ Head(results) = NULL THEN <<>>
    ELSE <<Head(results)>> \o ReadPrefix(Tail(results))

LookupEveryMiss(metadata_list, results, viaBatch) ==
    LET doi_list == DoiList(SelectSeq(metadata_list, LAMBDA m : ~Falsy(m.doi)))
    IN  IF viaBatch /\ Readable(results)
        THEN SelectSeq(doi_list, LAMBDA d : d \notin Range(results))
        ELSE doi_list
\* The DOIs batch_enrich_with_openalex sends through enrich_with_openalex,
\* in order: every DOI of the batch when the batch request did not answer
\* 200 or its answer could not be read to the end, none otherwise.
IndividualLookups(metadata_list, results, viaBatch) ==
    LET doi_list == DoiList(SelectSeq(metadata_list, LAMBDA m : ~Falsy(m.doi)))
    IN  IF viaBatch /\ Readable(results) THEN <<>> ELSE doi_list

\* batch_enrich_with_openalex.  With viaBatch (the batch request answers
\* 200) results are the DOIs of the works of the response, in its order:
\* one entry per work with a known DOI, then the DOIs of the batch the
\* response does not hold; a work that cannot be read raises, and the
\* except branch then adds every DOI of the batch to what was added
\* before.  Without viaBatch (429, another status, an exception of the
\* request) every DOI goes through enrich_with_openalex.  The DOIs
\* enrich_with_openalex finds a work for are those of results.
batch_enrich_with_openalex(metadata_list, results, viaBatch) ==
    LET papers_with_doi    == SelectSeq(metadata_list, LAMBDA m : ~Falsy(m.doi))
        papers_without_doi == SelectSeq(metadata_list, LAMBDA m : Falsy(m.doi))
        doi_list           == DoiList(papers_with_doi)
        Hit(doi)           == [DoiToMetadata(papers_with_doi, doi) EXCEPT !.oa = TRUE]
        Miss(doi)          == DoiToMetadata(papers_with_doi, doi)
        Matched(works)     == SelectSeq(works, LAMBDA d : d \in Range(doi_list))
        notFound           == SelectSeq(doi_list, LAMBDA d : d \notin Range(results))
        one_by_one ==
            [i \in 1..Len(doi_list) |->
                IF doi_list[i] \in Range(results)
                THEN Hit(doi_list[i]) ELSE Miss(doi_list[i])]
        enriched ==
            IF viaBatch /\ Readable(results)
              THEN [i \in 1..Len(Matched(results)) |-> Hit(Matched(results)[i])]
                   \o [i \in 1..Len(notFound) |-> Miss(notFound[i])]
            ELSE IF viaBatch
              THEN [i \in 1..Len(Matched(ReadPrefix(results))) |->
                       Hit(Matched(ReadPrefix(results))[i])]
                   \o one_by_one
              ELSE one_by_one
    IN  IF papers_with_doi = <<>>
          THEN metadata_list
          ELSE enriched \o papers_without_doi


OrchIdle ==
    /\ pmid_list = <<>>
    /\ mainPc = "idle"
    /\ runNo = 0
    /\ skip_existing = TRUE
    /\ query_id = NULL
    /\ queries = 0
    /\ stats = ZeroStats
    /\ nCompleted = 0
    /\ futures = <<>>
    /\ wk = [w \in 1..NUM_THREADS |-> WkIdle]
    /\ collection_runs = 0
    /\ failed_dois = {}
    /\ papersAtStart = {}

NeverReturnsEarly(found) == FALSE
\* "if not pmid_list: print('No papers found. Exiting.'); return"
NoPapersFound(found) == found = <<>>

\* collect_papers up to the submission of the batches: the search, the two
\* early returns, the query row, one future per batch.
CollectStart(skip) ==
    /\ mainPc \in {"idle", "done", "returned"}
    /\ runNo < MaxRuns
    /\ runNo' = runNo + 1
    /\ skip_existing' = skip
    /\ papersAtStart' = papers
    /\ nCompleted' = 0
    /\ IF NoPapersFound(pmid_list)
         THEN /\ mainPc' = "returned"
              /\ stats' = ZeroStats
              /\ futures' = <<>>
              /\ UNCHANGED <<query_id, queries>>
         ELSE /\ mainPc' = "running"
              /\ stats' = [ZeroStats EXCEPT !.total_found = Len(pmid_list)]
              /\ queries' = queries + 1
              /\ query_id' = queries + 1
              /\ futures' = [c \in 1..NumBatches |-> NewFuture]
    /\ UNCHANGED <<pmid_list, wk, collection_runs, failed_dois, papers, credIdx, notOrch>>

\* An idle thread of the executor takes the oldest queued task (the threads
\* are interchangeable: the first idle one stands for any of them).
TakeBatch(w) ==
    /\ mainPc = "running"
    /\ wk[w].pc = "idle"
    /\ \A v \in 1..(w - 1) : wk[v].pc # "idle"
    /\ \E c \in 1..Len(futures) :
         /\ futures[c].st = "queued"
         /\ \A b \in 1..(c - 1) : futures[b].st # "queued"
         /\ futures' = [futures EXCEPT ![c].st = "running"]
         /\ wk' = [wk EXCEPT ![w] = [WkIdle EXCEPT !.pc = "classify", !.chunk = c, !.i = 1]]
    /\ UNCHANGED <<pmid_list, mainPc, runNo, skip_existing, query_id, queries, stats,
                   nCompleted, collection_runs, failed_dois, papersAtStart,
                   papers, credIdx, notOrch>>

\* What no step of a batch worker changes.
mainVars == <<pmid_list, mainPc, runNo, skip_existing, query_id, queries, stats,
              nCompleted, collection_runs, papersAtStart>>

\* Where process_batch goes after its fetch phase and after its enrich loop.
AfterFetch(toEnrich, final) ==
    IF toEnrich # <<>> THEN "enrich" ELSE IF final # <<>> THEN "persist" ELSE "return"

AfterEnrich(final) == IF final # <<>> THEN "persist" ELSE "return"

\* One iteration of the classification loop (one db.paper_needs_enrichment),
\* and after the last one the early return when nothing is left to do.
ClassifyPmid(w) ==
    /\ wk[w].pc = "classify"
    /\ LET me         == wk[w]
           pmid_batch == Batch(me.chunk)
           pmid       == pmid_batch[me.i]
       IN  \E res \in paper_needs_enrichment(papers, pmid) :
             LET kind      == Classify(res.paper, res.needs, skip_existing)
                 toProcess == IF kind = "new"
                                THEN Append(me.pmids_to_process, pmid)
                                ELSE me.pmids_to_process
                 toEnrich  == IF kind = "enrich"
                                THEN Append(me.papers_to_enrich, CHOOSE p \in res.paper : TRUE)
                                ELSE me.papers_to_enrich
                 skipped   == IF kind = "skip"
                                THEN me.counts.skipped + 1
                                ELSE me.counts.skipped
                 last      == me.i = Len(pmid_batch)
             IN  wk' = [wk EXCEPT ![w] =
                         [me EXCEPT !.pmids_to_process = toProcess,
                                    !.papers_to_enrich = toEnrich,
                                    !.counts.skipped = skipped,
                                    !.i = IF last THEN 1 ELSE me.i + 1,
                                    !.pc = IF ~last THEN "classify"
                                           ELSE IF toProcess = <<>> /\ toEnrich = <<>>
                                                  THEN "return"
                                                  ELSE "fetch"]]
    /\ UNCHANGED <<futures, failed_dois, papers, credIdx, mainVars, notOrch>>

\* The network phase of process_batch for the new ids: bulk metadata fetch
\* (ids in bulk are returned), individual fetch of the missing ones (ids in
\* indiv succeed, the others count as failed), full-text fetch (ids in
\* texts get one; an exception in a fetch is caught and leaves the record as
\* it was), query_id assignment and OpenAlex batch enrichment.  None of it
\* touches the store, so the enrichment is computed here although the code
\* runs it after the enrich loop.  Each 429 met by safe_ncbi_call on the way
\* advances the shared identity pointer by one.
FetchBatch(w) ==
    /\ wk[w].pc = "fetch"
    /\ LET me  == wk[w]
           new == Range(me.pmids_to_process)
       IN  \E bulk \in SUBSET new :
           \E indiv \in SUBSET (new \ bulk) :
           \E texts \in SUBSET {p \in bulk \cup indiv : TRUE \in FullTextOutcomes(NewMetadata(p))} :
             LET all_metadata == bulk \cup indiv
                 Meta(p) == [fetch_fulltext_for_paper(NewMetadata(p), p \in texts)
                                EXCEPT !.query_id = query_id]
                 with_pmcid == SelectSeq(me.pmids_to_process,
                                 LAMBDA p : p \in all_metadata /\ NewMetadata(p).pmcid # NULL)
                 without_pmcid == SelectSeq(me.pmids_to_process,
                                 LAMBDA p : p \in all_metadata /\ NewMetadata(p).pmcid = NULL)
                 all_papers_to_save ==
                     [k \in 1..Len(with_pmcid) |-> Meta(with_pmcid[k])]
                     \o [k \in 1..Len(without_pmcid) |-> Meta(without_pmcid[k])]
                 dois == {m.doi : m \in Range(all_papers_to_save)} \ {NULL}
             IN  \E hits \in SUBSET dois, viaBatch \in BOOLEAN :
                   LET final == batch_enrich_with_openalex(all_papers_to_save,
                                    WorksFor(all_papers_to_save, hits), viaBatch)
                   IN  wk' = [wk EXCEPT ![w] =
                         [me EXCEPT !.all_papers_final = final,
                                    !.fetched = all_metadata,
                                    !.missing = new \ all_metadata,
                                    !.counts.failed = Cardinality(new \ all_metadata),
                                    !.i = 1,
                                    !.pc = AfterFetch(me.papers_to_enrich, final)]]
    /\ \E rotations \in 0..(NumCreds - 1) :
         credIdx' = (credIdx + rotations) % NumCreds
    /\ UNCHANGED <<futures, failed_dois, papers, mainVars, notOrch>>

\* extract_pubmed_metadata parses the fetched document outside any try: a
\* malformed record raises out of process_batch, before any write.
RaiseInBatch(w) ==
    /\ wk[w].pc = "fetch"
    /\ wk[w].pmids_to_process # <<>>
    /\ futures' = [futures EXCEPT ![wk[w].chunk].st = "raised"]
    /\ wk' = [wk EXCEPT ![w] = WkIdle]
    /\ UNCHANGED <<failed_dois, papers, credIdx, mainVars, notOrch>>

\* INSERT OR REPLACE INTO failed_dois, keyed by doi; an exception is
\* caught and printed.
add_failed_doi(tbl, doi, pmid, ok) ==
    IF ok THEN {r \in tbl : r.doi # doi} \cup {[doi |-> doi, pmid |-> pmid]} ELSE tbl

\* One iteration of the loop over papers_to_enrich: the full-text fetch of
\* an existing paper (found, not found, or an exception, which is caught)
\* and its write-back when it has a full text or an abstract.
EnrichExisting(w) ==
    /\ wk[w].pc = "enrich"
    /\ LET me    == wk[w]
           paper == me.papers_to_enrich[me.i]
           last  == me.i = Len(me.papers_to_enrich)
           Step(enriched) ==
               wk' = [wk EXCEPT ![w] =
                       [me EXCEPT !.counts.enriched = me.counts.enriched + enriched,
                                  !.i = IF last THEN 1 ELSE me.i + 1,
                                  !.pc = IF last THEN AfterEnrich(me.all_papers_final)
                                         ELSE "enrich"]]
       IN  \/ /\ Step(0)
              /\ UNCHANGED papers
           \/ \E found \in FullTextOutcomes(paper), ok \in BOOLEAN :
                LET enriched_paper == fetch_fulltext_for_paper(paper, found)
                    write == ~Falsy(enriched_paper.full_text) \/ ~Falsy(enriched_paper.abstract)
                IN  /\ papers' = IF write /\ ok
                                   THEN insert_paper(papers, enriched_paper)
                                   ELSE papers
                    /\ Step(IF write /\ ok THEN 1 ELSE 0)
    /\ UNCHANGED <<futures, failed_dois, credIdx, mainVars, notOrch>>

\* One iteration of the loop over all_papers_final: the upsert, the
\* counters, and the failed_dois row of a paper without full text.
PersistPaper(w) ==
    /\ wk[w].pc = "persist"
    /\ LET me       == wk[w]
           metadata == me.all_papers_final[me.i]
           last     == me.i = Len(me.all_papers_final)
           One(b)   == IF b THEN 1 ELSE 0
       IN  \E ok \in BOOLEAN, okDoi \in BOOLEAN :
             /\ papers' = IF ok THEN insert_paper(papers, metadata) ELSE papers
             /\ failed_dois' =
                  IF ok /\ ~metadata.is_ft /\ ~Falsy(metadata.doi)
                    THEN add_failed_doi(failed_dois, metadata.doi, metadata.pmid, okDoi)
                    ELSE failed_dois
             /\ wk' = [wk EXCEPT ![w] =
                  [me EXCEPT
                     !.counts.processed = me.counts.processed + One(ok),
                     !.counts.with_fulltext = me.counts.with_fulltext + One(ok /\ metadata.is_ft),
                     !.counts.with_openalex = me.counts.with_openalex + One(ok /\ metadata.oa),
                     !.counts.failed = me.counts.failed + One(~ok),
                     !.insertFailed = me.insertFailed + One(~ok),
                     !.i = IF last THEN 1 ELSE me.i + 1,
                     !.pc = IF last THEN "return" ELSE "persist"]]
    /\ UNCHANGED <<futures, credIdx, mainVars, notOrch>>

\* process_batch returns its six counters; the future completes.
ReturnBatch(w) ==
    /\ wk[w].pc = "return"
    /\ futures' = [futures EXCEPT ![wk[w].chunk] =
                     [@ EXCEPT !.st = "returned", !.result = wk[w].counts,
                               !.fetched = wk[w].fetched,
                               !.missing = wk[w].missing,
                               !.insertFailed = wk[w].insertFailed]]
    /\ wk' = [wk EXCEPT ![w] = WkIdle]
    /\ UNCHANGED <<failed_dois, papers, credIdx, mainVars, notOrch>>

Overwritten(counter, n) == n
\* counter += n, by the thread that runs the as_completed loop.
Incremented(counter, n) == counter + n

ChunkFailOne(pmid_batch) == 1

\* stats.failed_pubmed += len(futures[future])
ChunkFailCount(pmid_batch) == Len(pmid_batch)

\* One iteration of the as_completed loop of collect_papers, for a future
\* that completed: its counters are added (enriched is read and dropped), or
\* its exception is caught and the whole batch counted failed; then the
\* proactive rotation.  The checkpoint only prints.
ConsumeFuture(c) ==
    /\ mainPc = "running"
    /\ c \in 1..Len(futures)
    /\ futures[c].st \in {"returned", "raised"}
    /\ ~futures[c].consumed
    /\ futures' = [futures EXCEPT ![c].consumed = TRUE]
    /\ nCompleted' = nCompleted + 1
    /\ stats' =
         IF futures[c].st = "returned"
           THEN [stats EXCEPT
                   !.total_processed = Incremented(@, futures[c].result.processed),
                   !.with_full_text = Incremented(@, futures[c].result.with_fulltext),
                   !.with_openalex = Incremented(@, futures[c].result.with_openalex),
                   !.failed_pubmed = Incremented(@, futures[c].result.failed),
                   !.total_skipped = Incremented(@, futures[c].result.skipped)]
           ELSE [stats EXCEPT !.failed_pubmed = Incremented(@, ChunkFailCount(Batch(c)))]
    /\ credIdx' =
         IF nCompleted' % batches_per_credential = 0 /\ nCompleted' < Len(futures)
           THEN rotate_credentials(credIdx)
           ELSE credIdx
    /\ UNCHANGED <<pmid_list, mainPc, runNo, skip_existing, query_id, queries, wk,
                   collection_runs, failed_dois, papersAtStart, papers, notOrch>>

\* After the loop: without_full_text is derived and the statistics saved.
CollectFinish ==
    /\ mainPc = "running"
    /\ nCompleted = Len(futures)
    /\ stats' = [stats EXCEPT !.without_full_text = stats.total_processed - stats.with_full_text]
    /\ collection_runs' = collection_runs + 1
    /\ mainPc' = "done"
    /\ UNCHANGED <<pmid_list, runNo, skip_existing, query_id, queries, nCompleted, futures,
                   wk, failed_dois, papersAtStart, papers, credIdx, notOrch>>

Next ==
    \/ \E skip \in BOOLEAN : CollectStart(skip)
    \/ \E w \in 1..NUM_THREADS : TakeBatch(w)
    \/ \E w \in 1..NUM_THREADS : ClassifyPmid(w)
    \/ \E w \in 1..NUM_THREADS : FetchBatch(w)
    \/ \E w \in 1..NUM_THREADS : RaiseInBatch(w)
    \/ \E w \in 1..NUM_THREADS : EnrichExisting(w)
    \/ \E w \in 1..NUM_THREADS : PersistPaper(w)
    \/ \E w \in 1..NUM_THREADS : ReturnBatch(w)
    \/ \E c \in 1..Len(futures) : ConsumeFuture(c)
    \/ CollectFinish

(***************************************************************************)
(* Request pacing                                                          *)
(***************************************************************************)
\* The clock advances in ticks of 25 ms.
TicksPerSecond == 40

MAX_REQUESTS_PER_SEC == 8

\* OPENALEX_DELAY = 0.15 s, in ticks.
OPENALEX_DELAY == 6

\* 1.0 / MAX_REQUESTS_PER_SEC, in ticks.
NcbiInterval == TicksPerSecond \div MAX_REQUESTS_PER_SEC

Callers == 1..NumCallers

\* Both stamps start at 0 and time.time() is far past them: the first
\* request of either service never waits.
StartTime == TicksPerSecond

Max0(x) == IF x > 0 THEN x ELSE 0

RateIdle ==
    /\ now = StartTime
    /\ last_req_time = 0
    /\ semaphore = MAX_REQUESTS_PER_SEC
    /\ oaLast = 0
    /\ oaLock = 0
    /\ rtPc = [t \in Callers |-> "idle"]
    /\ rtWake = [t \in Callers |-> 0]
    /\ sent = <<>>

\* safe_ncbi_call's wrapper up to time.sleep: take a permit of the
\* semaphore, read the stamp, compute the wait.
NcbiEnter(t) ==
    /\ rtPc[t] = "idle"
    /\ Len(sent) < MaxRequests
    /\ semaphore > 0
    /\ semaphore' = semaphore - 1
    /\ LET elapsed == now - last_req_time
           wait == Max0(NcbiInterval - elapsed)
       IN  rtWake' = [rtWake EXCEPT ![t] = now + wait]
    /\ rtPc' = [rtPc EXCEPT ![t] = "ncbiWait"]
    /\ UNCHANGED <<now, last_req_time, oaLast, oaLock, sent, notRate>>

\* The sleep is over: stamp the time and start func(*args, **kwargs).
NcbiSend(t) ==
    /\ rtPc[t] = "ncbiWait"
    /\ now >= rtWake[t]
    /\ last_req_time' = now
    /\ sent' = Append(sent, [svc |-> "ncbi", at |-> now])
    /\ rtPc' = [rtPc EXCEPT ![t] = "ncbiCall"]
    /\ UNCHANGED <<now, semaphore, oaLast, oaLock, rtWake, notRate>>

\* func returns or raises: the with block gives the permit back.
NcbiReturn(t) ==
    /\ rtPc[t] = "ncbiCall"
    /\ semaphore' = semaphore + 1
    /\ rtPc' = [rtPc EXCEPT ![t] = "idle"]
    /\ UNCHANGED <<now, last_req_time, oaLast, oaLock, rtWake, sent, notRate>>

\* _check_and_wait_rate_limit up to time.sleep: take _openalex_lock, read
\* the stamp, compute the wait.  (The daily quota, checked first under the
\* same lock, can only add a wait before the stamp is read.)
OaEnter(t) ==
    /\ rtPc[t] = "idle"
    /\ Len(sent) < MaxRequests
    /\ oaLock = 0
    /\ oaLock' = t
    /\ LET time_since_last == now - oaLast
       IN  rtWake' = [rtWake EXCEPT ![t] =
                        IF time_since_last < OPENALEX_DELAY
                        THEN now + (OPENALEX_DELAY - time_since_last)
                        ELSE now]
    /\ rtPc' = [rtPc EXCEPT ![t] = "oaWait"]
    /\ UNCHANGED <<now, last_req_time, semaphore, oaLast, sent, notRate>>

\* The sleep is over: stamp the time, release the lock; the caller then
\* issues requests.get.
OaSend(t) ==
    /\ rtPc[t] = "oaWait"
    /\ oaLock = t
    /\ now >= rtWake[t]
    /\ oaLast' = now
    /\ oaLock' = 0
    /\ sent' = Append(sent, [svc |-> "openalex", at |-> now])
    /\ rtPc' = [rtPc EXCEPT ![t] = "idle"]
    /\ UNCHANGED <<now, last_req_time, semaphore, rtWake, notRate>>

Tick ==
    /\ now < MaxClock
    /\ now' = now + 1
    /\ UNCHANGED <<last_req_time, semaphore, oaLast, oaLock, rtPc, rtWake, sent, notRate>>

RateStep ==
    \/ \E t \in Callers : NcbiEnter(t)
    \/ \E t \in Callers : NcbiSend(t)
    \/ \E t \in Callers : NcbiReturn(t)
    \/ \E t \in Callers : OaEnter(t)
    \/ \E t \in Callers : OaSend(t)
    \/ Tick

(***************************************************************************)
(* QueryCache                                                              *)
(***************************************************************************)
\* Queries are sequences of characters; str.split() with no argument
\* splits on runs of whitespace.
Whitespace == {" ", "\n", "\t"}

\* query.split(): the maximal runs of non-whitespace characters.
RECURSIVE SplitFrom(_, _, _)
SplitFrom(query, p, word) ==
    IF p > Len(query)
    THEN IF word = <<>> THEN <<>> ELSE <<word>>
    ELSE IF query[p] \in Whitespace
         THEN IF word = <<>>
              THEN SplitFrom(query, p + 1, <<>>)
              ELSE <<word>> \o SplitFrom(query, p + 1, <<>>)
         ELSE SplitFrom(query, p + 1, Append(word, query[p]))

Split(query) == SplitFrom(query, 1, <<>>)

\* ' '.join(words)
RECURSIVE Join(_)
Join(words) ==
    IF words = <<>> THEN <<>>
    ELSE IF Len(words) = 1 THEN words[1]
    ELSE words[1] \o <<" ">> \o Join(Tail(words))

RawHash(query) == query
\* _get_query_hash: the md5 digest of the normalized text, taken as the
\* normalized text itself (distinct texts have distinct digests).
get_query_hash(query) == Join(Split(query))

CacheQueries ==
    { <<"a", " ", "b">>,
      <<" ", "a", "\n", " ", "b">>,
      <<"a", "\t", "b", " ">>,
      <<"a", "b">> }

IdLists == { <<>>, <<"p1", "p2">>, <<"p2", "p1">> }

Instances == 1..NumInstances

EmptyCache == [k \in {} |-> <<>>]

\* json.dump followed by json.load: keys and lists of strings come back as
\* written; the entry keeps what get reads.
CacheEntry(pmids) == [pmids |-> pmids, count |-> Len(pmids)]

Put(cache, key, entry) ==
    [k \in DOMAIN cache \cup {key} |-> IF k = key THEN entry ELSE cache[k]]

\* What get returns from a dict: {} is None.
Lookup(cache, query) ==
    LET query_hash == get_query_hash(query)
    IN  IF query_hash \in DOMAIN cache THEN {cache[query_hash].pmids} ELSE {}

CacheIdle ==
    /\ cacheFile = EmptyCache
    /\ qcLive = [i \in Instances |-> FALSE]
    /\ qcCache = [i \in Instances |-> EmptyCache]
    /\ qcLog = [i \in Instances |-> <<>>]
    /\ opLog = <<>>
    /\ lastGet = {}

\* QueryCache(): _load_cache reads the whole file into self.cache.
QcConstruct(i) ==
    /\ ~qcLive[i]
    /\ qcLive' = [qcLive EXCEPT ![i] = TRUE]
    /\ qcCache' = [qcCache EXCEPT ![i] = cacheFile]
    /\ qcLog' = [qcLog EXCEPT ![i] = <<>>]
    /\ lastGet' = {}
    /\ UNCHANGED <<cacheFile, opLog, notCache>>

\* get(query)
QcGet(i, query) ==
    /\ qcLive[i]
    /\ lastGet' = {[inst |-> i, query |-> query, res |-> Lookup(qcCache[i], query)]}
    /\ UNCHANGED <<cacheFile, qcLive, qcCache, qcLog, opLog, notCache>>

\* set(query, pmids): assign the entry, then _save_cache writes the whole
\* of self.cache over the file.
QcSet(i, query, pmids) ==
    /\ qcLive[i]
    /\ Len(opLog) < MaxOps
    /\ LET cache == Put(qcCache[i], get_query_hash(query), CacheEntry(pmids))
       IN  /\ qcCache' = [qcCache EXCEPT ![i] = cache]
           /\ cacheFile' = cache
    /\ qcLog' = [qcLog EXCEPT ![i] = Append(@, [query |-> query, pmids |-> pmids])]
    /\ opLog' = Append(opLog, [op |-> "set", query |-> query, pmids |-> pmids])
    /\ lastGet' = {}
    /\ UNCHANGED <<qcLive, notCache>>

\* clear()
QcClear(i) ==
    /\ qcLive[i]
    /\ Len(opLog) < MaxOps
    /\ qcCache' = [qcCache EXCEPT ![i] = EmptyCache]
    /\ cacheFile' = EmptyCache
    /\ qcLog' = [qcLog EXCEPT ![i] = <<>>]
    /\ opLog' = Append(opLog, [op |-> "clear", query |-> <<>>, pmids |-> <<>>])
    /\ lastGet' = {}
    /\ UNCHANGED <<qcLive, notCache>>

\* The search that made the object returns: the object is gone.
QcDrop(i) ==
    /\ qcLive[i]
    /\ qcLive' = [qcLive EXCEPT ![i] = FALSE]
    /\ qcCache' = [qcCache EXCEPT ![i] = EmptyCache]
    /\ qcLog' = [qcLog EXCEPT ![i] = <<>>]
    /\ lastGet' = {}
    /\ UNCHANGED <<cacheFile, opLog, notCache>>

CacheStep ==
    \/ \E i \in Instances : QcConstruct(i)
    \/ \E i \in Instances, query \in CacheQueries : QcGet(i, query)
    \/ \E i \in Instances, query \in CacheQueries, pmids \in IdLists : QcSet(i, query, pmids)
    \/ \E i \in Instances : QcClear(i)
    \/ \E i \in Instances : QcDrop(i)

(***************************************************************************)
(* Search                                                                  *)
(***************************************************************************)
\* The largest result window of one esearch (10000 in the source) and the
\* page size of the paged retrieval (batch_size = 5000), scaled down.
WindowCap == 2

search_batch_size == 1

Years == 1..NumYears

Months == 1..NumMonths

Min(a, b) == IF a < b THEN a ELSE b

\* The query of the searches.
SearchQuery == <<"a", " ", "b">>

\* Upstream: record k of the corpus is PmidPool[k], published in
\* sCorpus[k].year / sCorpus[k].month.
Dates == [year : Years, month : Months]

RECURSIVE SeqsUpTo(_, _)
SeqsUpTo(S, n) ==
    IF n = 0 THEN {<<>>}
    ELSE LET shorter == SeqsUpTo(S, n - 1)
         IN  shorter \cup {Append(q, x) : q \in {r \in shorter : Len(r) = n - 1}, x \in S}

\* Records are listed newest first: which record carries which identifier
\* makes no difference to the search.
DateRank(d) == d.year * (NumMonths + 1) + d.month

Corpora ==
    {c \in SeqsUpTo(Dates, MaxCorpus) :
        \A k \in 1..(Len(c) - 1) : DateRank(c[k]) >= DateRank(c[k + 1])}

CorpusIds == {PmidPool[k] : k \in 1..Len(sCorpus)}

InYear(y) == {PmidPool[k] : k \in {j \in 1..Len(sCorpus) : sCorpus[j].year = y}}

InMonth(y, m) ==
    {PmidPool[k] : k \in {j \in 1..Len(sCorpus) :
                             sCorpus[j].year = y /\ sCorpus[j].month = m}}

\* The orders a set can be listed in.
Perms(S) ==
    {f \in [1..Cardinality(S) -> S] : \A i, j \in 1..Cardinality(S) : f[i] = f[j] => i = j}

\* What esearch returns for retstart = start, retmax = count when the
\* relevance ranking of that call is ranking.
Page(ranking, start, count) ==
    SubSeq(ranking, start + 1, Min(start + count, Len(ranking)))

\* What esearch returns for one month with retmax = WindowCap: the top of
\* the month's ranking.
MonthResp(y, m) ==
    {S \in SUBSET InMonth(y, m) : Cardinality(S) = Min(WindowCap, Cardinality(InMonth(y, m)))}

SearchIdle ==
    /\ sCorpus = <<>>
    /\ sSearches = 0
    /\ sMax = 0
    /\ sUseCache = TRUE
    /\ sPc = "idle"
    /\ sBranch = "none"
    /\ sNum = 0
    /\ sPos = 0
    /\ sMonth = 0
    /\ sAllIds = <<>>
    /\ sAllPmids = {}
    /\ sFailed = FALSE
    /\ sResult = {}

\* cache = QueryCache(); cache.set(query, ids): load the file, put the
\* entry, write the file.
CacheSetFresh(ids) == Put(cacheFile, get_query_hash(SearchQuery), CacheEntry(ids))

\* search_pubmed up to the count request: the cache lookup.
SearchStart(max_results, use_cache) ==
    /\ sPc \in {"idle", "returned"}
    /\ sSearches < MaxSearches
    /\ sSearches' = sSearches + 1
    /\ sMax' = max_results
    /\ sUseCache' = use_cache
    /\ LET cached == IF use_cache THEN Lookup(cacheFile, SearchQuery) ELSE {}
       IN  IF cached # {}
           THEN LET cached_pmids == CHOOSE c \in cached : TRUE
                IN  /\ sResult' = {IF Len(cached_pmids) > max_results
                                   THEN SubSeq(cached_pmids, 1, max_results)
                                   ELSE cached_pmids}
                    /\ sPc' = "returned"
                    /\ sBranch' = "cache"
           ELSE /\ sResult' = {}
                /\ sPc' = "count"
                /\ sBranch' = "none"
    /\ sNum' = 0
    /\ sPos' = 0
    /\ sMonth' = 0
    /\ sAllIds' = <<>>
    /\ sAllPmids' = {}
    /\ sFailed' = FALSE
    /\ UNCHANGED <<sCorpus, cacheFile, notSearch>>

\* The count request (retmax = 0) and the choice of the branch.
SearchCount(ok) ==
    /\ sPc = "count"
    /\ LET total_count == Len(sCorpus)
           num_to_retrieve == Min(total_count, sMax)
       IN  IF ~ok \/ num_to_retrieve = 0
           THEN /\ sResult' = {<<>>}
                /\ sPc' = "returned"
                /\ sFailed' = ~ok
                /\ UNCHANGED <<sBranch, sNum, sPos>>
           ELSE /\ sNum' = num_to_retrieve
                /\ sFailed' = FALSE
                /\ sResult' = {}
                /\ IF num_to_retrieve > WindowCap
                   THEN sPc' = "date" /\ sBranch' = "date" /\ sPos' = NumYears
                   ELSE sPc' = "page" /\ sBranch' = "direct" /\ sPos' = 0
    /\ UNCHANGED <<sCorpus, sSearches, sMax, sUseCache, sMonth, sAllIds, sAllPmids,
                   cacheFile, notSearch>>

\* One iteration of the page loop.
SearchPage(ok) ==
    /\ sPc = "page"
    /\ sPos < sNum
    /\ LET fetch_count == Min(search_batch_size, sNum - sPos)
       IN  IF ok
           THEN \E ranking \in Perms(CorpusIds) :
                    sAllIds' = sAllIds \o Page(ranking, sPos, fetch_count)
           ELSE sAllIds' = sAllIds
    /\ sPos' = sPos + search_batch_size
    /\ sFailed' = (sFailed \/ ~ok)
    /\ UNCHANGED <<sCorpus, sSearches, sMax, sUseCache, sPc, sBranch, sNum, sMonth,
                   sAllPmids, sResult, cacheFile, notSearch>>

\* The page loop is over: cache and return all_ids.
SearchPageReturn ==
    /\ sPc = "page"
    /\ sPos >= sNum
    /\ cacheFile' = IF sUseCache THEN CacheSetFresh(sAllIds) ELSE cacheFile
    /\ sResult' = {sAllIds}
    /\ sPc' = "returned"
    /\ UNCHANGED <<sCorpus, sSearches, sMax, sUseCache, sBranch, sNum, sPos, sMonth,
                   sAllIds, sAllPmids, sFailed, notSearch>>

\* The end of one iteration of the year loop: break when enough was
\* retrieved, else the year before.
AfterYear(all_pmids) ==
    IF Cardinality(all_pmids) >= sNum THEN 0 ELSE sPos - 1

\* One iteration of the year loop: the count of the year, then the year's
\* records in one request, or the month loop.
SearchYear(countOk, fetchOk) ==
    /\ sPc = "date"
    /\ sPos >= 1
    /\ LET year_count == Cardinality(InYear(sPos))
       IN  IF ~countOk \/ year_count = 0
           THEN /\ sPos' = sPos - 1
                /\ sFailed' = (sFailed \/ ~countOk)
                /\ UNCHANGED <<sPc, sMonth, sAllPmids>>
           ELSE IF year_count <= WindowCap
           THEN /\ sAllPmids' = IF fetchOk THEN sAllPmids \cup InYear(sPos) ELSE sAllPmids
                /\ sPos' = AfterYear(sAllPmids')
                /\ sFailed' = (sFailed \/ ~fetchOk)
                /\ UNCHANGED <<sPc, sMonth>>
           ELSE /\ sPc' = "month"
                /\ sMonth' = 1
                /\ UNCHANGED <<sPos, sFailed, sAllPmids>>
    /\ UNCHANGED <<sCorpus, sSearches, sMax, sUseCache, sBranch, sNum, sAllIds, sResult,
                   cacheFile, notSearch>>

\* One iteration of the month loop.
SearchMonth(ok) ==
    /\ sPc = "month"
    /\ IF ok
       THEN \E month_pmids \in MonthResp(sPos, sMonth) :
                sAllPmids' = sAllPmids \cup month_pmids
       ELSE sAllPmids' = sAllPmids
    /\ sFailed' = (sFailed \/ ~ok)
    /\ IF sMonth < NumMonths
       THEN sMonth' = sMonth + 1 /\ UNCHANGED <<sPc, sPos>>
       ELSE sMonth' = 0 /\ sPc' = "date" /\ sPos' = AfterYear(sAllPmids')
    /\ UNCHANGED <<sCorpus, sSearches, sMax, sUseCache, sBranch, sNum, sAllIds, sResult,
                   cacheFile, notSearch>>

\* The year loop is over: the list of all_pmids, in the order the set
\* iterates; cache and return it.
SearchDateReturn ==
    /\ sPc = "date"
    /\ sPos = 0
    /\ \E listed \in Perms(sAllPmids) :
         /\ cacheFile' = IF sUseCache THEN CacheSetFresh(listed) ELSE cacheFile
         /\ sResult' = {listed}
    /\ sPc' = "returned"
    /\ UNCHANGED <<sCorpus, sSearches, sMax, sUseCache, sBranch, sNum, sPos, sMonth,
                   sAllIds, sAllPmids, sFailed, notSearch>>

SearchStep ==
    \/ \E max_results \in 1..MaxCorpus, use_cache \in BOOLEAN : SearchStart(max_results, use_cache)
    \/ \E ok \in BOOLEAN : SearchCount(ok)
    \/ \E ok \in BOOLEAN : SearchPage(ok)
    \/ SearchPageReturn
    \/ \E countOk, fetchOk \in BOOLEAN : SearchYear(countOk, fetchOk)
    \/ \E ok \in BOOLEAN : SearchMonth(ok)
    \/ SearchDateReturn

(***************************************************************************)
(* Content validation                                                      *)
(***************************************************************************)
SubstantialOver == 500

FlatOver == 2000

FallbackOver == 3000

\* A section name by the words it contains ('abstract', a word of
\* BOILERPLATE_SECTIONS, a word of MEANINGFUL_SECTIONS), as in "Abstract",
\* "Funding", "Data availability", "Methods", "Section 1".
SectionNames ==
    << [abstract |-> TRUE,  boilerplate |-> FALSE, meaningful |-> FALSE],
       [abstract |-> FALSE, boilerplate |-> TRUE,  meaningful |-> FALSE],
       [abstract |-> FALSE, boilerplate |-> TRUE,  meaningful |-> TRUE],
       [abstract |-> FALSE, boilerplate |-> FALSE, meaningful |-> TRUE],
       [abstract |-> FALSE, boilerplate |-> FALSE, meaningful |-> FALSE] >>

\* len(section_content.strip()), on either side of the threshold.
SectionLengths == <<SubstantialOver, SubstantialOver + 1>>

\* Section variant v: its name and the length of its content.
NumVariants == Len(SectionNames) * Len(SectionLengths)

SectionOf(v) ==
    [name |-> SectionNames[((v - 1) \div Len(SectionLengths)) + 1],
     length |-> SectionLengths[((v - 1) % Len(SectionLengths)) + 1]]

\* The dicts of up to n sections; the order of a dict's items makes no
\* difference to the counts, so each dict is listed once.
RECURSIVE SortedDicts(_)
SortedDicts(n) ==
    IF n = 0 THEN {<<>>}
    ELSE LET shorter == SortedDicts(n - 1)
         IN  shorter \cup
             UNION {{Append(d, v) : v \in (IF d = <<>> THEN 1 ELSE d[Len(d)])..NumVariants} :
                    d \in {r \in shorter : Len(r) = n - 1}}

FlatLengths == {FlatOver, FlatOver + 1, FallbackOver, FallbackOver + 1}

\* The loop without the skip of boilerplate sections.
SectionCountsNoSkip(sections_dict) ==
    LET secs == [k \in 1..Len(sections_dict) |-> SectionOf(sections_dict[k])]
        counted == {k \in 1..Len(secs) : ~secs[k].name.abstract}
        boilerplate == {k \in counted : secs[k].name.boilerplate}
    IN  [meaningful_count |-> Cardinality({k \in counted : secs[k].name.meaningful}),
         boilerplate_count |-> Cardinality(boilerplate),
         substantial_sections |->
             Cardinality({k \in counted : secs[k].length > SubstantialOver})]

\* The loop over the items of sections_dict: abstract sections are
\* skipped, boilerplate ones counted and skipped, the rest counted as
\* meaningful by name and as substantial by length.
SectionCounts(sections_dict) ==
    LET secs == [k \in 1..Len(sections_dict) |-> SectionOf(sections_dict[k])]
        counted == {k \in 1..Len(secs) : ~secs[k].name.abstract}
        boilerplate == {k \in counted : secs[k].name.boilerplate}
        rest == counted \ boilerplate
    IN  [meaningful_count |-> Cardinality({k \in rest : secs[k].name.meaningful}),
         boilerplate_count |-> Cardinality(boilerplate),
         substantial_sections |->
             Cardinality({k \in rest : secs[k].length > SubstantialOver})]

DecideNoFallback(c, flat) ==
    IF c.meaningful_count >= 1 /\ c.substantial_sections >= 1 THEN TRUE
    ELSE IF c.substantial_sections >= 3 /\ c.boilerplate_count < c.substantial_sections
         THEN TRUE
    ELSE FALSE
\* The decision logic after the loop.
Decide(c, flat) ==
    IF c.meaningful_count >= 1 /\ c.substantial_sections >= 1 THEN TRUE
    ELSE IF c.substantial_sections >= 3 /\ c.boilerplate_count < c.substantial_sections
         THEN TRUE
    ELSE IF c.boilerplate_count > 0 /\ c.meaningful_count = 0
            /\ c.substantial_sections < 3
         THEN FALSE
    ELSE IF c.substantial_sections < 2 THEN FALSE
    ELSE flat > FallbackOver

\* has_meaningful_content(sections_dict, full_text); flat is
\* len(full_text.strip()).
has_meaningful_content(sections_dict, flat) ==
    IF sections_dict = <<>>
    THEN flat > FlatOver
    ELSE Decide(SectionCounts(sections_dict), flat)

HeurIdle ==
    /\ hmSections = <<>>
    /\ hmFlat = 0
    /\ hmResult = {}

HmCall ==
    /\ hmResult = {}
    /\ hmResult' = {has_meaningful_content(hmSections, hmFlat)}
    /\ UNCHANGED <<hmSections, hmFlat, notHeur>>

HeurStep == HmCall

(***************************************************************************)
(* Full text chain                                                         *)
(***************************************************************************)
HtmlOver == 500

FtMetas == [pmcid : {NULL, "PMC1"}, doi : {NULL, "dA"}]

\* What a strategy extracts: sections and the length of the flat text.
FtContents ==
    [sections : SortedDicts(MaxFtSections),
     flat : FlatLengths \cup {HtmlOver, HtmlOver + 1}]

\* What the efetch of the archive XML yields: no handle or no parsable
\* article ("fail"), or an article with or without an abstract whose body
\* gave some content or none.
XmlOutcomes ==
    {[kind |-> "fail", abstract |-> FALSE, body |-> {}]}
    \cup [kind : {"article"}, abstract : BOOLEAN, body : {{}}]
    \cup {[kind |-> "article", abstract |-> a, body |-> {c}] :
             a \in BOOLEAN, c \in FtContents}

\* What scrape_pmc_html finds: an error or no article body ("fail"), or
\* the text of the page.
HtmlOutcomes ==
    {[kind |-> "fail", body |-> {}]}
    \cup {[kind |-> "page", body |-> {c}] : c \in FtContents}

FtIdle ==
    /\ ftMeta = [pmcid |-> NULL, doi |-> NULL]
    /\ ftPc = "idle"
    /\ ftOrigin = "pmcid"
    /\ ftTried = <<>>
    /\ ftResult = {}

\* try_all_fulltext_sources(metadata), up to its first request.
FtStart(metadata) ==
    /\ ftPc = "idle"
    /\ ftMeta' = metadata
    /\ ftTried' = <<>>
    /\ ftResult' = {}
    /\ IF metadata.pmcid # NULL
       THEN ftPc' = "xml" /\ ftOrigin' = "pmcid"
       ELSE IF metadata.doi # NULL
            THEN ftPc' = "lookup" /\ ftOrigin' = "doi"
            ELSE ftPc' = "returned" /\ ftOrigin' = "doi"
    /\ UNCHANGED notFt

ElseOnly(meta, origin) == "returned"
\* A step of try_all_fulltext_sources came back with (None, None): where
\* the chain goes next.
NextSource(meta, origin) ==
    IF origin = "pmcid" /\ meta.doi # NULL THEN "lookup" ELSE "returned"

FtMiss ==
    /\ ftPc' = NextSource(ftMeta, ftOrigin)
    /\ ftOrigin' = "doi"
    /\ ftResult' = {}

FtHit(content, via) ==
    /\ ftPc' = "returned"
    /\ ftResult' = {[sections |-> content.sections, flat |-> content.flat,
                     via |-> via, step |-> Len(ftTried')]}
    /\ UNCHANGED ftOrigin

\* extract_pmc_fulltext up to its return or its call of scrape_pmc_html.
FtXml(x) ==
    /\ ftPc = "xml"
    /\ ftTried' = Append(ftTried, "xml")
    /\ IF x.kind = "fail"
       THEN FtMiss
       ELSE LET has_body_content == x.body # {}
                has_meaningful ==
                    IF has_body_content
                    THEN \A c \in x.body : has_meaningful_content(c.sections, c.flat)
                    ELSE has_meaningful_content(<<>>, 0)
            IN  IF has_body_content /\ has_meaningful
                THEN \E c \in x.body : FtHit(c, "xml")
                ELSE IF x.abstract
                     THEN ftPc' = "html" /\ UNCHANGED <<ftOrigin, ftResult>>
                     ELSE FtMiss
    /\ UNCHANGED <<ftMeta, notFt>>

\* scrape_pmc_html and the rest of extract_pmc_fulltext.
FtHtml(h) ==
    /\ ftPc = "html"
    /\ ftTried' = Append(ftTried, "html")
    /\ IF h.kind = "page" /\ \A c \in h.body : c.flat > HtmlOver
       THEN \E c \in h.body : FtHit(c, "html")
       ELSE FtMiss
    /\ UNCHANGED <<ftMeta, notFt>>

\* extract_fulltext_by_doi up to its call of extract_pmc_fulltext.
FtLookup(found) ==
    /\ ftPc = "lookup"
    /\ ftTried' = Append(ftTried, "lookup")
    /\ IF found
       THEN ftPc' = "xml" /\ UNCHANGED <<ftOrigin, ftResult>>
       ELSE FtMiss
    /\ UNCHANGED <<ftMeta, notFt>>

\* The caller takes the result; the next record.
FtDone ==
    /\ ftPc = "returned"
    /\ ftPc' = "idle"
    /\ ftTried' = <<>>
    /\ ftResult' = {}
    /\ ftOrigin' = "pmcid"
    /\ ftMeta' = [pmcid |-> NULL, doi |-> NULL]
    /\ UNCHANGED notFt

FtStep ==
    \/ \E metadata \in FtMetas : FtStart(metadata)
    \/ \E x \in XmlOutcomes : FtXml(x)
    \/ \E h \in HtmlOutcomes : FtHtml(h)
    \/ \E found \in BOOLEAN : FtLookup(found)
    \/ FtDone

(***************************************************************************)
(* Batch enrichment                                                        *)
(***************************************************************************)
\* Record k of a list has pmid PmidPool[k]; its DOI is any of these.
EnrichDois == {NULL, "dA", "DA", "dB"}

EnrichLists ==
    {[k \in 1..Len(ds) |-> [pmid |-> PmidPool[k], doi |-> ds[k], oa |-> FALSE]] :
        ds \in SeqsUpTo(EnrichDois, MaxEnrich)}

\* The DOIs of the works of a response: known ones, repeated ones, one
\* nobody asked for, and a work without a doi.
WorkLists == SeqsUpTo({"dA", "dB", "dX", NULL}, MaxWorks)

\* enrich_with_openalex(metadata) against a service that holds a work for
\* the DOIs of known (and resolves a DOI whatever its case or resolver
\* prefix): a record without DOI comes back as it is, a 200 sets the
\* OpenAlex fields and openalex_retrieved, a 404 leaves the record alone.
EnrichIndividually(metadata, known) ==
    IF Falsy(metadata.doi) THEN metadata
    ELSE IF CleanDoi(metadata.doi) \in known
           THEN [metadata EXCEPT !.oa = TRUE]
           ELSE metadata

EnrichIdle ==
    /\ enIn = <<>>
    /\ enPc = "idle"
    /\ enStatus = "s200"
    /\ enResults = <<>>
    /\ enIndividual = <<>>
    /\ enOut = <<>>

\* batch_enrich_with_openalex(metadata_list)
EnrichCall(status, results) ==
    /\ enPc = "idle"
    /\ enPc' = "done"
    /\ enStatus' = status
    /\ enResults' = results
    /\ enIndividual' = IF \A k \in 1..Len(enIn) : Falsy(enIn[k].doi) THEN <<>>
                       ELSE IndividualLookups(enIn, results, status = "s200")
    /\ enOut' = batch_enrich_with_openalex(enIn, results, status = "s200")
    /\ UNCHANGED <<enIn, notEn>>

EnrichStep ==
    \E status \in {"s200", "s429", "other", "exc"}, results \in WorkLists :
        EnrichCall(status, results)

ExtIdle == RateIdle /\ CacheIdle /\ SearchIdle /\ HeurIdle /\ FtIdle /\ EnrichIdle

(***************************************************************************)
(* Duplicate resolution (scripts/helper_scripts/resolve_doi_duplicates.py) *)
(***************************************************************************)
\* Texts of a full_text column, by length; None is NULL.
Texts == {NULL, "t", "text"}

TextLen(v) == CASE v = NULL -> 0 [] v = "t" -> 1 [] v = "text" -> 4

\* Values of a list column (mesh_terms): the list json.dumps wrote.
TermLists == {<<>>, <<"m1">>, <<"m2">>}

DupDates == 1..NumDates

\* The flag and the text of a stored row: the pipeline sets is_full_text_pmc
\* with every full text it stores (main.py:126-129), and also for a record
\* that has a PMC id and no retrieved text (pubmed_extractor.py:444-446).
FlagAndText == {<<f, t>> \in BOOLEAN \X Texts : t # NULL => f}

\* Rows of the papers table the script reads.  Rows outside the group of
\* dA carry the same columns; theirs are fixed.
DupRowsOf(pmid) ==
    {[pmid |-> pmid, doi |-> "dA", collection_date |-> d, is_full_text_pmc |-> ft[1],
      full_text |-> ft[2], mesh_terms |-> m] :
        d \in DupDates, ft \in FlagAndText, m \in TermLists}
    \cup {[pmid |-> pmid, doi |-> x, collection_date |-> 1, is_full_text_pmc |-> FALSE,
           full_text |-> NULL, mesh_terms |-> <<>>] : x \in {"dB", NULL, ""}}

RECURSIVE DupStores(_)
DupStores(n) ==
    IF n = 0 THEN {{}}
    ELSE DupStores(n - 1)
         \cup {s \cup {r} : s \in {t \in DupStores(n - 1) : Cardinality(t) = n - 1},
                            r \in DupRowsOf(PmidPool[n])}

PmidRank(pmid) == CHOOSE i \in 1..Len(PmidPool) : PmidPool[i] = pmid

\* get_duplicate_dois: the DOIs, neither NULL nor '', that several rows carry.
get_duplicate_dois(rows) ==
    {d \in {r.doi : r \in rows} :
        /\ d # NULL
        /\ d # ""
        /\ Cardinality({r \in rows : r.doi = d}) > 1}

\* ORDER BY collection_date DESC, pmid
FirstByDate(rows) ==
    CHOOSE r \in rows :
        \A o \in rows :
            \/ o.collection_date < r.collection_date
            \/ (o.collection_date = r.collection_date /\ PmidRank(r.pmid) <= PmidRank(o.pmid))

RECURSIVE OrderByDate(_)
OrderByDate(rows) ==
    IF rows = {} THEN <<>>
    ELSE <<FirstByDate(rows)>> \o OrderByDate(rows \ {FirstByDate(rows)})

\* get_papers_by_doi
get_papers_by_doi(rows, doi) == OrderByDate({r \in rows : r.doi = doi})

DeleteAlways(rows, deleted_pmids, dry_run) ==
    {r \in rows : r.pmid \notin deleted_pmids}
\* if not dry_run: DELETE FROM papers WHERE pmid = ? for pmid in deleted_pmids
DeleteUnlessDryRun(rows, deleted_pmids, dry_run) ==
    IF dry_run THEN rows ELSE {r \in rows : r.pmid \notin deleted_pmids}

\* strategy_keep_recent: of each group the first row is kept.
strategy_keep_recent(rows, dry_run) ==
    LET delete_papers(doi) == Range(Tail(get_papers_by_doi(rows, doi)))
        deleted_pmids ==
            {r.pmid : r \in UNION {delete_papers(doi) : doi \in get_duplicate_dois(rows)}}
    IN  DeleteUnlessDryRun(rows, deleted_pmids, dry_run)

\* The row strategy_keep_fulltext keeps of a group, by the is_full_text_pmc
\* column: the first flagged row, the first row when none is flagged.
KeepFulltextChoice(papers_) ==
    LET with_fulltext == SelectSeq(papers_, LAMBDA p : p.is_full_text_pmc)
    IN  IF Len(with_fulltext) = 1 THEN with_fulltext[1]
        ELSE IF Len(with_fulltext) > 1 THEN with_fulltext[1]
        ELSE papers_[1]

strategy_keep_fulltext(rows, dry_run) ==
    LET delete_papers(doi) ==
            LET papers_ == get_papers_by_doi(rows, doi)
            IN  {p \in Range(papers_) : p.pmid # KeepFulltextChoice(papers_).pmid}
        deleted_pmids ==
            {r.pmid : r \in UNION {delete_papers(doi) : doi \in get_duplicate_dois(rows)}}
    IN  DeleteUnlessDryRun(rows, deleted_pmids, dry_run)

\* "not merged_data[key] or merged_data[key] == ''" / "value and value != ''"
\* by column: a text is empty when None or '', a flag when 0; the JSON text
\* of a list column is at least '[]' and never empty, nor is the ISO text
\* of collection_date.
ColumnEmpty(key, value) ==
    CASE key = "mesh_terms"       -> FALSE
      [] key = "collection_date"  -> FALSE
      [] key = "is_full_text_pmc" -> value = FALSE
      [] OTHER                    -> value = NULL \/ value = ""

\* One round of "for other in others: for key, value in other.items()".
MergeOne(merged_data, other) ==
    [key \in DOMAIN merged_data |->
        IF key # "pmid" /\ ColumnEmpty(key, merged_data[key]) /\ ~ColumnEmpty(key, other[key])
        THEN other[key] ELSE merged_data[key]]

RECURSIVE MergeAll(_, _)
MergeAll(merged_data, others) ==
    IF others = <<>> THEN merged_data
    ELSE MergeAll(MergeOne(merged_data, Head(others)), Tail(others))

\* strategy_merge: per group an UPDATE of the primary row and a DELETE of
\* the others, when not a dry run.
strategy_merge(rows, dry_run) ==
    LET dups == get_duplicate_dois(rows)
        merged(doi) == LET papers_ == get_papers_by_doi(rows, doi)
                       IN  MergeAll(Head(papers_), Tail(papers_))
    IN  IF dry_run THEN rows
        ELSE {r \in rows : r.doi \notin dups} \cup {merged(doi) : doi \in dups}

\* strategy_export: the groups written to the JSON file.
strategy_export(rows) ==
    {[doi |-> doi, count |-> Len(get_papers_by_doi(rows, doi)),
      papers |-> get_papers_by_doi(rows, doi)] : doi \in get_duplicate_dois(rows)}

Strategies == {"keep-recent", "keep-fulltext", "merge", "export"}

DedupIdle ==
    /\ ddPapers = {}
    /\ ddBefore = {}
    /\ ddPc = "idle"
    /\ ddStrategy = "export"
    /\ ddApply = FALSE
    /\ ddExport = {}

\* main(): --strategy and --apply; the strategy runs with dry_run = not
\* args.apply, export never changes the table.
ResolveDuplicates(strategy, apply) ==
    /\ ddPc = "idle"
    /\ ddPc' = "done"
    /\ ddStrategy' = strategy
    /\ ddApply' = apply
    /\ ddBefore' = ddPapers
    /\ ddPapers' = CASE strategy = "keep-recent"   -> strategy_keep_recent(ddPapers, ~apply)
                     [] strategy = "keep-fulltext" -> strategy_keep_fulltext(ddPapers, ~apply)
                     [] strategy = "merge"         -> strategy_merge(ddPapers, ~apply)
                     [] strategy = "export"        -> ddPapers
    /\ ddExport' = IF strategy = "export" THEN strategy_export(ddPapers) ELSE ddExport
    /\ UNCHANGED notDd

DedupStep == \E strategy \in Strategies, apply \in BOOLEAN : ResolveDuplicates(strategy, apply)

(***************************************************************************)
(* Caller identity (config.rotate_credentials, Entrez.email)               *)
(***************************************************************************)
\* Thread 0 is the orchestrator (the as_completed loop of collect_papers),
\* the others are the workers of the executor.
IdWorkers == 1..NumIdThreads

IdThreads == 0..NumIdThreads

\* ENTREZ_EMAIL / ENTREZ_API_KEY: the first pair of NCBI_CREDENTIALS, bound
\* when config is imported.
DefaultIdentity == 0

IdentIdle ==
    /\ entrezEmail = DefaultIdentity
    /\ idPc = [t \in IdThreads |-> "idle"]
    /\ idLocal = [t \in IdThreads |-> 0]
    /\ idAttempt = [t \in IdThreads |-> 0]
    /\ idCalls = [t \in IdThreads |-> 0]
    /\ idSignals = 0
    /\ idRotations = 0
    /\ idLastReq = {}

\* extract_pubmed_metadata and the other entry points set Entrez.email and
\* Entrez.api_key to the default pair, then enter safe_ncbi_call.
IdStartCall(t) ==
    /\ idPc[t] = "idle"
    /\ idCalls[t] < MaxIdCalls
    /\ idCalls' = [idCalls EXCEPT ![t] = @ + 1]
    /\ entrezEmail' = DefaultIdentity
    /\ idAttempt' = [idAttempt EXCEPT ![t] = 0]
    /\ idPc' = [idPc EXCEPT ![t] = "attempt"]
    /\ UNCHANGED <<credIdx, idLocal, idSignals, idRotations, idLastReq, notIdent>>

\* One attempt of safe_ncbi_call: func(*args) sends the request under the
\* Entrez.email of that moment; the answer is a result, a 429, or another
\* error (retried after RETRY_DELAY, None after the last attempt).
IdRequest(t, resp) ==
    /\ idPc[t] = "attempt"
    /\ idLastReq' = {[by |-> t, used |-> entrezEmail, pointer |-> credIdx,
                      attempt |-> idAttempt[t]]}
    /\ CASE resp = "ok" ->
              /\ idPc' = [idPc EXCEPT ![t] = "idle"]
              /\ UNCHANGED <<idAttempt, idSignals>>
         [] resp = "s429" ->
              /\ idSignals < MaxSignals
              /\ idSignals' = idSignals + 1
              /\ idPc' = [idPc EXCEPT ![t] = "rotRead"]
              /\ UNCHANGED idAttempt
         [] resp = "error" ->
              /\ idAttempt' = [idAttempt EXCEPT ![t] = @ + 1]
              /\ idPc' = [idPc EXCEPT ![t] =
                            IF idAttempt[t] < MAX_RETRIES - 1 THEN "attempt" ELSE "idle"]
              /\ UNCHANGED idSignals
    /\ UNCHANGED <<credIdx, entrezEmail, idLocal, idCalls, idRotations, notIdent>>

\* collect_papers: "if (i + 1) % batches_per_credential == 0 ...:
\* rotate_credentials()" on the orchestrator thread.
IdProactive ==
    /\ idPc[0] = "idle"
    /\ idCalls[0] < MaxProactive
    /\ idCalls' = [idCalls EXCEPT ![0] = @ + 1]
    /\ idPc' = [idPc EXCEPT ![0] = "rotRead"]
    /\ UNCHANGED <<credIdx, entrezEmail, idLocal, idAttempt, idSignals, idRotations, idLastReq, notIdent>>

\* rotate_credentials takes no lock: the read of _current_credential_index,
\* the store of the incremented value and the read for creds are separate
\* steps of the calling thread.
IdRotRead(t) ==
    /\ idPc[t] = "rotRead"
    /\ idLocal' = [idLocal EXCEPT ![t] = credIdx]
    /\ idPc' = [idPc EXCEPT ![t] = "rotWrite"]
    /\ UNCHANGED <<credIdx, entrezEmail, idAttempt, idCalls, idSignals, idRotations, idLastReq, notIdent>>

IdRotWrite(t) ==
    /\ idPc[t] = "rotWrite"
    /\ credIdx' = rotate_credentials(idLocal[t])
    /\ idPc' = [idPc EXCEPT ![t] = "rotCreds"]
    /\ UNCHANGED <<entrezEmail, idLocal, idAttempt, idCalls, idSignals, idRotations, idLastReq, notIdent>>

\* creds = NCBI_CREDENTIALS[_current_credential_index]; return creds
IdRotCreds(t) ==
    /\ idPc[t] = "rotCreds"
    /\ idLocal' = [idLocal EXCEPT ![t] = credIdx]
    /\ idRotations' = idRotations + 1
    /\ idPc' = [idPc EXCEPT ![t] = IF t = 0 THEN "idle" ELSE "setEmail"]
    /\ UNCHANGED <<credIdx, entrezEmail, idAttempt, idCalls, idSignals, idLastReq, notIdent>>

\* Entrez.email = new_creds['email']; the backoff sleep; the next attempt,
\* if one is left.
IdSetEmail(t) ==
    /\ idPc[t] = "setEmail"
    /\ entrezEmail' = idLocal[t]
    /\ idAttempt' = [idAttempt EXCEPT ![t] = @ + 1]
    /\ idPc' = [idPc EXCEPT ![t] =
                  IF idAttempt[t] < MAX_RETRIES - 1 THEN "attempt" ELSE "idle"]
    /\ UNCHANGED <<credIdx, idLocal, idCalls, idSignals, idRotations, idLastReq, notIdent>>

IdentStep ==
    \/ \E t \in IdWorkers : IdStartCall(t)
    \/ \E t \in IdWorkers, resp \in {"ok", "s429", "error"} : IdRequest(t, resp)
    \/ IdProactive
    \/ \E t \in IdThreads : IdRotRead(t)
    \/ \E t \in IdThreads : IdRotWrite(t)
    \/ \E t \in IdThreads : IdRotCreds(t)
    \/ \E t \in IdWorkers : IdSetEmail(t)

(***************************************************************************)
(* Checkpoints (the as_completed loop of collect_papers)                   *)
(***************************************************************************)
\* What a future gives the loop: the processed and failed counts of
\* process_batch, or an exception (the batch is then counted failed).
ChunkOutcomes == [raised : {FALSE}, processed : 0..1, failed : 0..1]
                 \cup {[raised |-> TRUE, processed |-> 0, failed |-> 1]}

CkIdle ==
    /\ ckPc = "idle"
    /\ ckTotal = 0
    /\ ckDone = 0
    /\ ckStats = [total_processed |-> 0, failed_pubmed |-> 0]
    /\ ckPrinted = {}
    /\ ckRows = {}

\* executor.submit of one future per batch.
CkSubmit(n) ==
    /\ ckPc = "idle"
    /\ ckPc' = "loop"
    /\ ckTotal' = n
    /\ UNCHANGED <<ckDone, ckStats, ckPrinted, ckRows, notCk>>

IsCheckpoint(done, total) == done % CHECKPOINT_EVERY = 0 \/ done = total

\* One iteration of the loop: the counters of the future are added, then
\* the checkpoint, which prints the counters and saves nothing.
CkCompleted(o) ==
    /\ ckPc = "loop"
    /\ ckDone < ckTotal
    /\ ckDone' = ckDone + 1
    /\ ckStats' = [total_processed |-> ckStats.total_processed + o.processed,
                   failed_pubmed |-> ckStats.failed_pubmed + o.failed]
    /\ ckPrinted' = IF IsCheckpoint(ckDone', ckTotal)
                    THEN ckPrinted \cup {ckDone'}
                    ELSE ckPrinted
    /\ UNCHANGED <<ckPc, ckTotal, ckRows, notCk>>

\* After the loop: db.save_collection_stats(stats).
CkSave ==
    /\ ckPc = "loop"
    /\ ckDone = ckTotal
    /\ ckPc' = "done"
    /\ ckRows' = ckRows \cup {[stats |-> ckStats, at |-> ckDone]}
    /\ UNCHANGED <<ckTotal, ckDone, ckStats, ckPrinted, notCk>>

CkStep ==
    \/ \E n \in 1..MaxChunks : CkSubmit(n)
    \/ \E o \in ChunkOutcomes : CkCompleted(o)
    \/ CkSave

(***************************************************************************)
(* Store mutex (PaperDatabase._lock)                                       *)
(***************************************************************************)
MxThreads == 1..NumStoreThreads

WriteMethods == {"insert_paper", "add_failed_doi", "insert_query", "save_collection_stats"}

\* The methods whose body is inside "with self._lock:".
TakesLock(method) == method \in {"insert_paper", "add_failed_doi", "insert_query"}

MxIdle ==
    /\ mxLock = 0
    /\ mxPc = [t \in MxThreads |-> "idle"]
    /\ mxOp = [t \in MxThreads |-> "insert_paper"]
    /\ mxCalls = [t \in MxThreads |-> 0]

\* A thread calls a write method of the instance.
MxCall(t, method) ==
    /\ mxPc[t] = "idle"
    /\ mxCalls[t] < MaxStoreCalls
    /\ mxCalls' = [mxCalls EXCEPT ![t] = @ + 1]
    /\ mxOp' = [mxOp EXCEPT ![t] = method]
    /\ mxPc' = [mxPc EXCEPT ![t] = IF TakesLock(method) THEN "acquire" ELSE "execute"]
    /\ UNCHANGED <<mxLock, notMx>>

\* with self._lock: the thread waits until the lock is free.
MxAcquire(t) ==
    /\ mxPc[t] = "acquire"
    /\ mxLock = 0
    /\ mxLock' = t
    /\ mxPc' = [mxPc EXCEPT ![t] = "execute"]
    /\ UNCHANGED <<mxOp, mxCalls, notMx>>

\* cursor.execute on the shared connection: done, or an exception that
\* leaves the with block (and is caught or propagates).
MxExecute(t, ok) ==
    /\ mxPc[t] = "execute"
    /\ mxPc' = [mxPc EXCEPT ![t] = IF ok THEN "commit" ELSE "idle"]
    /\ mxLock' = IF ~ok /\ mxLock = t THEN 0 ELSE mxLock
    /\ UNCHANGED <<mxOp, mxCalls, notMx>>

\* self.conn.commit(), the end of the with block, the return.
MxCommit(t) ==
    /\ mxPc[t] = "commit"
    /\ mxPc' = [mxPc EXCEPT ![t] = "idle"]
    /\ mxLock' = IF mxLock = t THEN 0 ELSE mxLock
    /\ UNCHANGED <<mxOp, mxCalls, notMx>>

MxStep ==
    \/ \E t \in MxThreads, method \in WriteMethods : MxCall(t, method)
    \/ \E t \in MxThreads : MxAcquire(t)
    \/ \E t \in MxThreads, ok \in BOOLEAN : MxExecute(t, ok)
    \/ \E t \in MxThreads : MxCommit(t)

(***************************************************************************)
(* Metadata fetch of process_batch                                         *)
(***************************************************************************)
MfIds == {PmidPool[k] : k \in 1..NumFetchIds}

\* pmids_to_process: the new ids of a batch, in the order of the search
\* result; an id the search returned twice is there twice.
RECURSIVE NewLists(_)
NewLists(n) ==
    IF n = 0 THEN {<<>>}
    ELSE LET shorter == NewLists(n - 1)
         IN  shorter \cup {Append(l, p) : l \in {r \in shorter : Len(r) = n - 1}, p \in MfIds}

MfIdle ==
    /\ mfPc = "idle"
    /\ mfNew = <<>>
    /\ mfBulk = {}
    /\ mfAll = {}
    /\ mfMissing = <<>>
    /\ mfPos = 0
    /\ mfCalls = <<>>
    /\ mfFailed = 0

\* process_batch has classified its ids: failed = 0, all_metadata = {}.
MfStart(pmids_to_process) ==
    /\ mfPc = "idle"
    /\ pmids_to_process # <<>>
    /\ mfNew' = pmids_to_process
    /\ mfPc' = "bulk"
    /\ UNCHANGED <<mfBulk, mfAll, mfMissing, mfPos, mfCalls, mfFailed, notMf>>

\* missing_pmids = [pmid for pmid in pmids_to_process if pmid not in all_metadata]
MissingPmids(pmids_to_process, all_metadata) ==
    SelectSeq(pmids_to_process, LAMBDA pmid : pmid \notin all_metadata)

\* extract_pubmed_metadata_batch over the one sub-batch (a batch is shorter
\* than METADATA_FETCH_BATCH_SIZE): the response holds any of the ids
\* asked for, none when the request failed.
MfBulkFetch(response) ==
    /\ mfPc = "bulk"
    /\ mfBulk' = response
    /\ mfAll' = response
    /\ mfMissing' = MissingPmids(mfNew, response)
    /\ mfPos' = 1
    /\ mfPc' = IF mfMissing' # <<>> THEN "individual" ELSE "fetched"
    /\ UNCHANGED <<mfNew, mfCalls, mfFailed, notMf>>

\* One iteration of the loop over missing_pmids: extract_pubmed_metadata
\* gives a record, which is added to all_metadata, or None, and the id is
\* counted failed.
MfIndividual(found) ==
    /\ mfPc = "individual"
    /\ LET pmid == mfMissing[mfPos]
       IN  /\ mfCalls' = Append(mfCalls, [pmid |-> pmid, found |-> found])
           /\ mfAll' = IF found THEN mfAll \cup {pmid} ELSE mfAll
           /\ mfFailed' = IF found THEN mfFailed ELSE mfFailed + 1
    /\ mfPos' = mfPos + 1
    /\ mfPc' = IF mfPos = Len(mfMissing) THEN "fetched" ELSE "individual"
    /\ UNCHANGED <<mfNew, mfBulk, mfMissing, notMf>>

\* extract_pubmed_metadata reads the fields of the article outside any
\* try: a malformed record raises out of process_batch.
MfRaise ==
    /\ mfPc = "individual"
    /\ mfCalls' = Append(mfCalls, [pmid |-> mfMissing[mfPos], found |-> FALSE])
    /\ mfPc' = "raised"
    /\ UNCHANGED <<mfNew, mfBulk, mfAll, mfMissing, mfPos, mfFailed, notMf>>

MfStep ==
    \/ \E pmids_to_process \in NewLists(MaxNew) : MfStart(pmids_to_process)
    \/ \E response \in SUBSET Range(mfNew) : MfBulkFetch(response)
    \/ \E found \in BOOLEAN : MfIndividual(found)
    \/ MfRaise

(***************************************************************************)
(* Specifications                                                          *)
(***************************************************************************)
Ext2Idle == DedupIdle /\ IdentIdle /\ CkIdle /\ MxIdle /\ MfIdle

InitGw == GwInit /\ StoreIdle /\ OrchIdle /\ ExtIdle /\ Ext2Idle

SpecGw == InitGw /\ [][GwStep]_vars

\* A call under way goes on: the wrapped request returns or raises (the
\* enrichment request has a timeout of 10 s), every sleep is finite, and the
\* thread is not stopped.  Nothing obliges a caller to start a call.
GwAttempt ==
    \/ \E resp \in NcbiResp : safe_ncbi_call(resp)
    \/ \E resp \in OaResp : enrich_with_openalex(resp)

SpecGwLive == InitGw /\ [][GwStep]_vars /\ WF_vars(GwAttempt)

InitStore == StoreInit /\ GwInit /\ OrchIdle /\ ExtIdle /\ Ext2Idle

SpecStore == InitStore /\ [][StoreStep]_vars

\* An empty store, and the list the search returns for the query.
Init ==
    /\ GwInit
    /\ StoreIdle
    /\ ExtIdle
    /\ Ext2Idle
    /\ \E found \in SearchResults :
         /\ pmid_list = found
         /\ mainPc = "idle"
         /\ runNo = 0
         /\ skip_existing = TRUE
         /\ query_id = NULL
         /\ queries = 0
         /\ stats = ZeroStats
         /\ nCompleted = 0
         /\ futures = <<>>
         /\ wk = [w \in 1..NUM_THREADS |-> WkIdle]
         /\ collection_runs = 0
         /\ failed_dois = {}
         /\ papersAtStart = {}

Spec == Init /\ [][Next]_vars

InitRate == GwInit /\ StoreIdle /\ OrchIdle /\ ExtIdle /\ Ext2Idle

SpecRate == InitRate /\ [][RateStep]_vars

InitCache == GwInit /\ StoreIdle /\ OrchIdle /\ ExtIdle /\ Ext2Idle

SpecCache == InitCache /\ [][CacheStep]_vars

\* Any corpus upstream, an empty cache file.
InitSearch ==
    /\ GwInit /\ StoreIdle /\ OrchIdle /\ RateIdle /\ CacheIdle /\ HeurIdle /\ FtIdle /\ EnrichIdle
    /\ Ext2Idle
    /\ \E corpus \in Corpora :
         /\ sCorpus = corpus
         /\ sSearches = 0
         /\ sMax = 0
         /\ sUseCache = TRUE
         /\ sPc = "idle"
         /\ sBranch = "none"
         /\ sNum = 0
         /\ sPos = 0
         /\ sMonth = 0
         /\ sAllIds = <<>>
         /\ sAllPmids = {}
         /\ sFailed = FALSE
         /\ sResult = {}

SpecSearch == InitSearch /\ [][SearchStep]_vars

\* Any sections dict and any flat text.
InitHeur ==
    /\ GwInit /\ StoreIdle /\ OrchIdle /\ RateIdle /\ CacheIdle /\ SearchIdle /\ FtIdle /\ EnrichIdle
    /\ Ext2Idle
    /\ \E sections_dict \in SortedDicts(MaxSections), flat \in FlatLengths :
         /\ hmSections = sections_dict
         /\ hmFlat = flat
         /\ hmResult = {}

SpecHeur == InitHeur /\ [][HeurStep]_vars

InitFt == GwInit /\ StoreIdle /\ OrchIdle /\ ExtIdle /\ Ext2Idle

SpecFt == InitFt /\ [][FtStep]_vars

\* Any list of records.
InitEnrich ==
    /\ GwInit /\ StoreIdle /\ OrchIdle
    /\ RateIdle /\ CacheIdle /\ SearchIdle /\ HeurIdle /\ FtIdle
    /\ Ext2Idle
    /\ \E metadata_list \in EnrichLists :
         /\ enIn = metadata_list
         /\ enPc = "idle"
         /\ enStatus = "s200"
         /\ enResults = <<>>
         /\ enIndividual = <<>>
         /\ enOut = <<>>

SpecEnrich == InitEnrich /\ [][EnrichStep]_vars

\* Any papers table.
InitDedup ==
    /\ GwInit /\ StoreIdle /\ OrchIdle /\ ExtIdle /\ IdentIdle /\ CkIdle /\ MxIdle /\ MfIdle
    /\ \E rows \in DupStores(MaxDupRows) :
         /\ ddPapers = rows
         /\ ddBefore = rows
         /\ ddPc = "idle"
         /\ ddStrategy = "export"
         /\ ddApply = FALSE
         /\ ddExport = {}

SpecDedup == InitDedup /\ [][DedupStep]_vars

InitCk == GwInit /\ StoreIdle /\ OrchIdle /\ ExtIdle /\ Ext2Idle

SpecCk == InitCk /\ [][CkStep]_vars

InitMx == GwInit /\ StoreIdle /\ OrchIdle /\ ExtIdle /\ Ext2Idle

SpecMx == InitMx /\ [][MxStep]_vars

InitMf == GwInit /\ StoreIdle /\ OrchIdle /\ ExtIdle /\ Ext2Idle

SpecMf == InitMf /\ [][MfStep]_vars

InitIdent == GwInit /\ StoreIdle /\ OrchIdle /\ ExtIdle /\ Ext2Idle

SpecIdent == InitIdent /\ [][IdentStep]_vars

(***************************************************************************)
(* Store claims                                                            *)
(***************************************************************************)
RowsOf(pmid) == {r \in papers : r.pmid = pmid}

\* C6: insert_paper is an insert-or-replace keyed by pmid: after any
\* sequence of upserts the table holds exactly one row per upserted pmid,
\* the row of the last successful upsert of that pmid (none for a pmid never
\* upserted), and upserting a record a second time changes nothing.
C6_UpsertKeyedByPmid ==
    /\ \A r1, r2 \in papers : r1.pmid = r2.pmid => r1 = r2
    /\ \A p \in DOMAIN lastUp : RowsOf(p) = lastUp[p]
    /\ \A m \in StoreRecords :
          insert_paper(insert_paper(papers, m), m) = insert_paper(papers, m)

\* Both pmids stored, and the row of p1 has been replaced (only the
\* re-cleaning write-back stores an emptied full text).
C6_Witness ==
    /\ Cardinality(papers) = 2
    /\ \E r \in RowsOf("p1") : r.full_text = "" /\ lastUp["p1"] = {r}

EmptyText(x) == x \in {NULL, "", " "}

RecordExists(identifier) ==
    \E r \in papers : r.pmid = identifier \/ r.doi = identifier

\* C7 (as claimed): needs-enrichment is true iff a record exists and its
\* abstract is empty or both its full_text and its full_text_sections are
\* empty; (false, none) when no record exists.
C7_SectionsCount ==
    qId # NULL =>
        /\ (qRes.paper = {}) <=> ~RecordExists(qId)
        /\ qRes.paper = {} => ~qRes.needs
        /\ \A paper \in qRes.paper :
              (qRes.needs <=>
                  \/ EmptyText(paper.abstract)
                  \/ (paper.full_text \in {NULL, ""} /\ paper.sections # "secs"))

\* C7 (amended): needs-enrichment is true iff a record exists and its
\* abstract is empty (or only whitespace) or its full_text is empty,
\* whatever its full_text_sections; (false, none) when no record exists.
C7_FullTextOnly ==
    qId # NULL =>
        /\ (qRes.paper = {}) <=> ~RecordExists(qId)
        /\ qRes.paper = {} => ~qRes.needs
        /\ \A paper \in qRes.paper :
              /\ paper.pmid = qId \/ paper.doi = qId
              /\ ToRow(paper) \in {[r EXCEPT !.extra = NULL] : r \in papers}
              /\ qRes.needs <=>
                    \/ EmptyText(paper.abstract)
                    \/ paper.full_text \in {NULL, ""}

\* A stored record with an abstract and sections whose flat full text is
\* empty is reported as needing enrichment.
C7_Witness ==
    /\ qId = "p1"
    /\ qRes.needs
    /\ \E paper \in qRes.paper :
          /\ paper.abstract = "text"
          /\ paper.full_text = ""
          /\ paper.sections = "secs"

(***************************************************************************)
(* Gateway claims                                                          *)
(***************************************************************************)
AllAre(h, x) == \A i \in 1..Len(h) : h[i] = x

RateLimitSignal == IF gwKind = "ncbi" THEN "e429" ELSE "s429"

\* Every attempt of the finished call was answered with a rate-limit signal.
RateLimitedThroughout ==
    /\ gwPc = "done"
    /\ Len(gwHist) > 0
    /\ AllAre(gwHist, RateLimitSignal)

\* Values a caller receives for a successful and for a not-found answer.
SuccessValues == {"ok", "enriched"}

NotFoundValues == {"empty", "unchanged"}

RateLimitedThenSuccess(k) ==
    /\ gwPc = "done"
    /\ Len(gwHist) = k + 1
    /\ AllAre(SubSeq(gwHist, 1, k), RateLimitSignal)
    /\ gwHist[k + 1] \in {"ok", "empty", "s200"}

\* C9: a safe_ncbi_call answered by k rate-limit signals (k < MAX_RETRIES)
\* and then a success returns that success, and the credential index has
\* advanced exactly k positions round-robin from where the call found it.
\* (enrich_with_openalex has a single identity: it returns the success and
\* never rotates.)
C9_RotatedExactlyK ==
    \A k \in 0..(MAX_RETRIES - 1) :
        RateLimitedThenSuccess(k) =>
            /\ gwKind = "ncbi" =>
                  /\ gwResult = gwHist[k + 1]
                  /\ gwRot = k
                  /\ credIdx = (gwStartIdx + k) % NumCreds
            /\ gwKind = "openalex" =>
                  /\ gwResult = "enriched"
                  /\ gwRot = 0
                  /\ credIdx = gwStartIdx

\* First 2 of 3 attempts rate-limited, starting from the last identity.
C9_Witness ==
    /\ RateLimitedThenSuccess(2)
    /\ gwKind = "ncbi"
    /\ gwResult = "ok"
    /\ gwStartIdx = NumCreds - 1
    /\ gwRot = 2

\* Definitive not-found answers: an empty document or an HTTP 404 from the
\* search/archive service, a 404 from the enrichment service.
NotFoundResp == {"empty", "e404", "s404"}

FirstAnswerIs(r) == Len(gwHist) > 0 /\ gwHist[1] = r

OneAttemptNoRetry ==
    /\ Len(gwHist) = 1
    /\ gwSleeps = <<>>
    /\ gwRot = 0
    /\ credIdx = gwStartIdx

SumTo(Op(_), n) ==
    LET F[i \in 0..n] == IF i = 0 THEN 0 ELSE F[i - 1] + Op(i)
    IN  F[n]

Stored(tbl, pmid) == \E r \in tbl : r.pmid = pmid

\* Every id the search returns had a row when the run started.
AllPersistedAtStart ==
    \A k \in 1..Len(pmid_list) : Stored(papersAtStart, pmid_list[k])

\* C1: when every id returned by the search is in the store at the start of
\* a run with skip-existing, the run processes zero records, counts none as
\* failed, skips total_found of them and leaves the table as it was,
\* whatever the order in which the batches complete.
C1_IdempotentRerun ==
    (mainPc = "done" /\ skip_existing /\ AllPersistedAtStart) =>
        /\ stats.total_processed = 0
        /\ stats.failed_pubmed = 0
        /\ stats.total_skipped = stats.total_found
        /\ papers = papersAtStart

\* A second run over two batches, all of whose ids the first run persisted.
C1_Witness ==
    /\ mainPc = "done"
    /\ runNo = 2
    /\ skip_existing
    /\ AllPersistedAtStart
    /\ Len(futures) = 2
    /\ stats.total_skipped = NumPmids

\* C2: at the end of a run every id the search returned is counted in exactly
\* one of processed with full text, processed without full text
\* (incomplete), skipped and failed: the four counts sum to total_found.
C2_EveryIdCountedOnce ==
    mainPc = "done" =>
        stats.with_full_text + stats.without_full_text
            + stats.total_skipped + stats.failed_pubmed = stats.total_found

\* C3: during and after a run with skip-existing, every row that was in
\* papers when the run started is still there, unchanged.
C3_SkipExistingKeepsRows ==
    (mainPc \in {"running", "done"} /\ skip_existing) =>
        \A r \in papersAtStart : r \in papers

\* A finished skip-existing run that found an incomplete row and a complete
\* one in the store and added new rows next to them.
C3_Witness ==
    /\ mainPc = "done"
    /\ skip_existing
    /\ \E r \in papersAtStart : r.full_text = NULL
    /\ \E r \in papersAtStart : r.full_text = "text" /\ r.abstract = "text"
    /\ papers # papersAtStart
    /\ Len(futures) = 2

Raised(c) == futures[c].st = "raised"

FailedOf(c) == IF Raised(c) THEN Len(Batch(c)) ELSE futures[c].result.failed

ProcessedOf(c) == IF Raised(c) THEN 0 ELSE futures[c].result.processed

SkippedOf(c) == IF Raised(c) THEN 0 ELSE futures[c].result.skipped

\* C4: a run ends with every batch completed and consumed, whether its task
\* returned or raised; a batch that raised adds exactly its length to
\* failed_pubmed and nothing else, and every other batch adds the counters
\* it returned.
C4_RaisedBatchCountedFailed ==
    mainPc = "done" =>
        /\ \A c \in 1..Len(futures) :
              futures[c].consumed /\ futures[c].st \in {"returned", "raised"}
        /\ stats.failed_pubmed = SumTo(FailedOf, Len(futures))
        /\ stats.total_processed = SumTo(ProcessedOf, Len(futures))
        /\ stats.total_skipped = SumTo(SkippedOf, Len(futures))

\* The batch of three raised, the other batch persisted its record.
C4_Witness ==
    /\ mainPc = "done"
    /\ Len(futures) = 2
    /\ Raised(1)
    /\ futures[2].st = "returned"
    /\ futures[2].result.processed = 1
    /\ stats.failed_pubmed = BatchSize
    /\ stats.total_processed = 1

\* C5: in a batch that returned, where the metadata of some new id could not
\* be fetched and no upsert failed, each such id is counted failed once and
\* every new id whose metadata was fetched has its row in papers.
C5_OthersStillPersisted ==
    \A c \in 1..Len(futures) :
        (/\ futures[c].st = "returned"
         /\ futures[c].missing # {}
         /\ futures[c].insertFailed = 0) =>
            /\ futures[c].result.failed = Cardinality(futures[c].missing)
            /\ \A pmid \in futures[c].fetched : Stored(papers, pmid)

(***************************************************************************)
(* Request pacing claims                                                   *)
(***************************************************************************)
MinInterval(svc) == IF svc = "ncbi" THEN NcbiInterval ELSE OPENALEX_DELAY

\* C11: any two requests started towards the same service (NCBI through
\* safe_ncbi_call, OpenAlex through _check_and_wait_rate_limit), by whatever
\* callers, start at least the service's minimum interval apart.
C11_MinIntervalPerService ==
    \A i, j \in 1..Len(sent) :
        (i < j /\ sent[i].svc = sent[j].svc)
            => sent[j].at - sent[i].at >= MinInterval(sent[i].svc)

(***************************************************************************)
(* QueryCache claims                                                       *)
(***************************************************************************)
\* The positions of a query that hold a non-whitespace character, and for
\* each whether a word starts there.
Inked(query) == {p \in 1..Len(query) : query[p] \notin Whitespace}

InkAt(query, k) ==
    CHOOSE p \in Inked(query) : Cardinality({r \in Inked(query) : r < p}) = k - 1

\* Two queries differ only in whitespace: the same characters in the same
\* words (runs of whitespace of any length and kind, and leading and
\* trailing whitespace, do not count).
WsEquivalent(q1, q2) ==
    /\ Cardinality(Inked(q1)) = Cardinality(Inked(q2))
    /\ \A k \in 1..Cardinality(Inked(q1)) :
         LET p1 == InkAt(q1, k)
             p2 == InkAt(q2, k)
         IN  /\ q1[p1] = q2[p2]
             /\ k > 1 => ((q1[p1 - 1] \in Whitespace) <=> (q2[p2 - 1] \in Whitespace))

SetsLike(log, query) == {k \in 1..Len(log) : WsEquivalent(log[k].query, query)}

LastOf(S) == CHOOSE k \in S : \A m \in S : m <= k

\* C12: a get through a QueryCache object returns exactly the list of the
\* object's last set of that query or of a query differing from it only in
\* whitespace (same elements, same order); a query that nothing ever set,
\* up to whitespace, gets none.
C12_CacheFidelity ==
    \A g \in lastGet :
        LET mine == SetsLike(qcLog[g.inst], g.query)
        IN  /\ mine # {} => g.res = {qcLog[g.inst][LastOf(mine)].pmids}
            /\ (\A k \in 1..Len(opLog) :
                   opLog[k].op = "set" => ~WsEquivalent(opLog[k].query, g.query))
                 => g.res = {}

\* A get of a query spelled differently from the one set, after a set of
\* another query as well, returns the list.
C12_Witness ==
    \E g \in lastGet :
        /\ Len(qcLog[g.inst]) >= 2
        /\ \E k \in SetsLike(qcLog[g.inst], g.query) :
             /\ qcLog[g.inst][k].query # g.query
             /\ qcLog[g.inst][k].pmids = <<"p2", "p1">>
             /\ g.res = {<<"p2", "p1">>}

\* C13: whatever the interleaving of sets of distinct queries through the
\* QueryCache objects, once they are done a freshly constructed cache (one
\* that loads the file as it then is) returns, for every query set, the
\* list that was set.
C13_NoLostCacheWrite ==
    (/\ \A k \in 1..Len(opLog) : opLog[k].op = "set"
     /\ \A k, m \in 1..Len(opLog) :
          k # m => ~WsEquivalent(opLog[k].query, opLog[m].query))
        => \A k \in 1..Len(opLog) :
             Lookup(cacheFile, opLog[k].query) = {opLog[k].pmids}

(***************************************************************************)
(* Search claims                                                           *)
(***************************************************************************)
NoDuplicates(ids) == \A i, j \in 1..Len(ids) : ids[i] = ids[j] => i = j

\* C14: the list search_pubmed returns holds no identifier twice, whichever
\* branch produced it (cache hit, paged retrieval, date partition) and
\* whatever the upstream pages hold.
C14_NoDuplicateIds ==
    sPc = "returned" => \A ids \in sResult : NoDuplicates(ids)

\* C15: when the target min(total_count, max_results) exceeds the window
\* cap and no upstream call fails, the date-partitioned search returns
\* exactly that many identifiers, all distinct.
C15_PartitionComplete ==
    (sPc = "returned" /\ sBranch = "date" /\ ~sFailed)
        => \A ids \in sResult :
             /\ Len(ids) = Min(Len(sCorpus), sMax)
             /\ NoDuplicates(ids)

(***************************************************************************)
(* Content validation claims                                               *)
(***************************************************************************)
HmSecs == [k \in 1..Len(hmSections) |-> SectionOf(hmSections[k])]

\* The sections that are not abstract sections.
NonAbstract == {k \in 1..Len(HmSecs) : ~HmSecs[k].name.abstract}

IsBoilerplate(k) == HmSecs[k].name.boilerplate

\* A substantive-named section: a meaningful name that is not boilerplate.
IsSubstantive(k) == HmSecs[k].name.meaningful /\ ~HmSecs[k].name.boilerplate

Long(k) == HmSecs[k].length > 500

Attempted(strategy) == \E k \in 1..Len(ftTried) : ftTried[k] = strategy

\* The chain stops at the first strategy that yields full text: a result
\* is the yield of the last strategy attempted and ends the chain.
StopsAtFirstSuccess ==
    \A r \in ftResult : ftPc = "returned" /\ r.step = Len(ftTried)

\* C16 as stated: the lookup of the archive identifier by DOI is attempted
\* only for a record with no known archive identifier (for a record whose
\* archive identifier is known only the fetch by it is attempted), and the
\* chain stops at the first strategy that yields full text.
C16_LookupIsElseBranch ==
    /\ Attempted("lookup") => ftMeta.pmcid = NULL
    /\ StopsAtFirstSuccess

\* C16 as the code goes: the lookup by DOI is attempted for a record with
\* a DOI, first of all when the record has no archive identifier and
\* otherwise after the fetch by its archive identifier yielded no full text;
\* a chain that returns nothing for a record with a DOI has attempted it;
\* and the chain stops at the first strategy that yields full text.
C16_LookupAfterMiss ==
    /\ \A k \in 1..Len(ftTried) :
         ftTried[k] = "lookup" =>
             /\ ftMeta.doi # NULL
             /\ \A j \in 1..Len(ftTried) : ftTried[j] = "lookup" => j = k
             /\ IF ftMeta.pmcid = NULL THEN k = 1 ELSE k > 1 /\ ftTried[1] = "xml"
    /\ (ftPc = "returned" /\ ftResult = {} /\ ftMeta.doi # NULL) => Attempted("lookup")
    /\ StopsAtFirstSuccess

\* A record with both identifiers: the fetch by the archive identifier
\* yielded nothing, the lookup by DOI was attempted and its fetch yielded
\* the full text.
C16_Witness ==
    /\ ftPc = "returned"
    /\ ftMeta.pmcid # NULL
    /\ ftTried = <<"xml", "lookup", "xml">>
    /\ \E r \in ftResult : r.via = "xml"

\* C17: every (full_text, sections) the chain returns, from the archive
\* XML or from the HTML scrape, satisfies has_meaningful_content.
C17_ReturnedIsMeaningful ==
    \A r \in ftResult : has_meaningful_content(r.sections, r.flat)

(***************************************************************************)
(* Batch enrichment claims                                                 *)
(***************************************************************************)
\* C19: batch_enrich_with_openalex neither drops nor duplicates a record:
\* the list it returns holds each record of its input exactly once.
C19_EachRecordExactlyOnce ==
    enPc = "done" =>
        \A k \in 1..Len(enIn) :
            Cardinality({j \in 1..Len(enOut) : enOut[j].pmid = enIn[k].pmid}) = 1

BatchKeys == {CleanDoi(enIn[k].doi) : k \in {j \in 1..Len(enIn) : enIn[j].doi # NULL}}

\* C20 as stated: every DOI of the batch that the batch response did not
\* match, an answer 200 that omits it included, is then looked up through
\* enrich_with_openalex.
C20_EveryMissLookedUp ==
    enPc = "done" =>
        \A d \in BatchKeys :
            (enStatus # "s200" \/ d \notin Range(enResults)) => d \in Range(enIndividual)

\* C20 as the code goes: when the batch request does not answer 200 (429,
\* another status, an exception) or its answer cannot be read to the end,
\* every DOI of the batch is looked up through enrich_with_openalex, once;
\* when it answers 200 and the answer is read none is, and a record whose
\* DOI the response omits is returned as it was.
C20_LookupOnFailureOnly ==
    enPc = "done" =>
        IF enStatus # "s200" \/ NULL \in Range(enResults)
        THEN /\ Range(enIndividual) = BatchKeys
             /\ Len(enIndividual) = Cardinality(BatchKeys)
        ELSE /\ enIndividual = <<>>
             /\ \A d \in BatchKeys :
                  d \notin Range(enResults) =>
                      \E j \in 1..Len(enOut) : CleanDoi(enOut[j].doi) = d /\ ~enOut[j].oa

\* An answer 200 that holds a work for one DOI of the batch and omits
\* another: the second is returned unenriched and nothing is looked up.
C20_Witness ==
    /\ enPc = "done"
    /\ enStatus = "s200"
    /\ "dA" \in Range(enResults)
    /\ {"dA", "dB"} \subseteq BatchKeys
    /\ "dB" \notin Range(enResults)
    /\ enIndividual = <<>>
    /\ \E j \in 1..Len(enOut) : enOut[j].doi = "dB" /\ ~enOut[j].oa


\* The works the service of the call holds.
ServiceKnown == Range(enResults) \ {NULL}

\* openalex_retrieved of record k once the call is over: the records are
\* objects changed in place, a record the call never touched stays as it was.
AfterBatch(k) ==
    IF \E j \in 1..Len(enOut) : enOut[j].pmid = enIn[k].pmid
    THEN (CHOOSE j \in 1..Len(enOut) : enOut[j].pmid = enIn[k].pmid) \in
             {j \in 1..Len(enOut) : enOut[j].oa}
    ELSE enIn[k].oa

\* C21: batched enrichment equals individual enrichment: after
\* batch_enrich_with_openalex every record of the input has the enrichment
\* flag (and fields) that enrich_with_openalex gives it against the same
\* service.
C21_BatchEqualsIndividual ==
    enPc = "done" =>
        \A k \in 1..Len(enIn) :
            AfterBatch(k) = EnrichIndividually(enIn[k], ServiceKnown).oa


(***************************************************************************)
(* Duplicate resolution claims                                             *)
(***************************************************************************)
\* has_full_text of a stored row: its full text is not empty.
HasFullText(r) == r.full_text # NULL /\ r.full_text # ""

DupGroup(doi) == {r \in ddBefore : r.doi = doi}

RemainingOf(doi) == {r \in ddPapers : r.doi = doi}

Newest(group) == {r \in group : \A o \in group : o.collection_date <= r.collection_date}

\* C22: applied to a group of rows sharing a DOI, keep-recent leaves exactly
\* the row with the newest collection date, and keep-fulltext
\* (keep-most-complete) leaves exactly one row, the one with full text when
\* exactly one row of the group has full text.
C22_DeterministicResolution ==
    (ddPc = "done" /\ ddApply) =>
        \A doi \in get_duplicate_dois(ddBefore) :
            /\ ddStrategy = "keep-recent" =>
                 /\ Cardinality(RemainingOf(doi)) = 1
                 /\ RemainingOf(doi) \subseteq Newest(DupGroup(doi))
            /\ ddStrategy = "keep-fulltext" =>
                 /\ Cardinality(RemainingOf(doi)) = 1
                 /\ Cardinality({r \in DupGroup(doi) : HasFullText(r)}) = 1 =>
                        RemainingOf(doi) = {r \in DupGroup(doi) : HasFullText(r)}


\* C23: a strategy run without --apply (a dry run), and the export strategy
\* with or without it, leave the papers table as it was: no row deleted,
\* no row updated.
C23_DryRunLeavesStore ==
    (ddPc = "done" /\ (~ddApply \/ ddStrategy = "export")) => ddPapers = ddBefore

\* A dry run of keep-recent over a table that holds a duplicate group.
C23_Witness ==
    /\ ddPc = "done"
    /\ ~ddApply
    /\ ddStrategy = "keep-recent"
    /\ get_duplicate_dois(ddBefore) # {}
    /\ ddPapers = ddBefore

\* The row the merge keeps of a group: its primary, the first by date.
PrimaryOf(doi) == get_papers_by_doi(ddBefore, doi)[1]

\* The row of the group that is left, by the retained pmid.
MergedRow(doi) == CHOOSE r \in ddPapers : r.pmid = PrimaryOf(doi).pmid

\* C24: the applied merge leaves one row per duplicate group, under the
\* pmid of the retained row; its text field holds the longest text of the
\* group, its list field the union of the lists of the group, and any other
\* field the retained row's value, filled from the others when empty.
C24_MergePrefersLongestAndUnion ==
    (ddPc = "done" /\ ddApply /\ ddStrategy = "merge") =>
        \A doi \in get_duplicate_dois(ddBefore) :
            /\ Cardinality(RemainingOf(doi)) = 1
            /\ \E r \in RemainingOf(doi) : r.pmid = PrimaryOf(doi).pmid
            /\ \A r \in DupGroup(doi) :
                    TextLen(r.full_text) <= TextLen(MergedRow(doi).full_text)
            /\ Range(MergedRow(doi).mesh_terms) =
                    UNION {Range(r.mesh_terms) : r \in DupGroup(doi)}
            /\ MergedRow(doi).is_full_text_pmc =
                    (\E r \in DupGroup(doi) : r.is_full_text_pmc)


NoRotationUnderWay == \A t \in IdThreads : idPc[t] \notin {"rotWrite", "rotCreds"}

\* C26: rotations are never lost: once k calls of rotate_credentials have
\* completed, by workers inside safe_ncbi_call and by the orchestrator in
\* any interleaving, the pointer is (initial + k) mod the number of
\* identities.
C26_NoLostRotation ==
    NoRotationUnderWay => credIdx = (0 + idRotations) % NumCreds

\* C27: every outbound request goes out under the identity the pointer
\* designates at that moment, the retry after a rate-limit signal under the
\* identity just rotated to.
C27_RequestUnderCurrentIdentity ==
    \A req \in idLastReq : req.used = req.pointer


(***************************************************************************)
(* Search claims: caching, paging, partition order                         *)
(***************************************************************************)
\* search_pubmed has returned a list it resolved upstream: not a cache hit,
\* and not the empty list of a failed count request.
ResolvedUpstream ==
    /\ sPc = "returned"
    /\ sBranch # "cache"
    /\ ~(sBranch = "none" /\ sFailed)

\* C28: with caching enabled, whenever search_pubmed returns a list it
\* resolved upstream (zero count, paged, date-split), the cache holds an
\* entry for the query equal to that list.
C28_ResolvedListIsCached ==
    (ResolvedUpstream /\ sUseCache) => Lookup(cacheFile, SearchQuery) = sResult

\* C29: in the paged branch the list search_pubmed returns (and caches) has
\* exactly num_to_retrieve identifiers; a page whose request failed does
\* not make it shorter.
C29_DirectPageReturnsTarget ==
    (sPc = "returned" /\ sBranch = "direct") =>
        \A ids \in sResult :
            /\ Len(ids) = sNum
            /\ sUseCache => \A cached \in Lookup(cacheFile, SearchQuery) : Len(cached) = sNum

\* A request of the date-split search is about to be sent: the count of a
\* year, or the fetch of a month.
AboutToProbe == (sPc = "date" /\ sPos >= 1) \/ sPc = "month"

\* C30: the years are probed in strictly decreasing order from the current
\* year on, and no year is probed and no month fetched once all_pmids holds
\* target_count identifiers.
C30_StopsOnceTargetReached ==
    [][/\ (sPc = "count" /\ sPc' = "date") => sPos' = NumYears
       /\ (sPc = "date" /\ sPc' = "date") => sPos' < sPos
       /\ AboutToProbe => Cardinality(sAllPmids) < sNum]_vars

(***************************************************************************)
(* Full text chain claims: the fallback                                    *)
(***************************************************************************)
\* The archive XML gave body content that has_meaningful_content rejects.
FailsHeuristic(x) ==
    /\ x.kind = "article"
    /\ x.body # {}
    /\ \A c \in x.body : ~has_meaningful_content(c.sections, c.flat)

\* C31: whenever the fetch of the archive XML yields content that fails
\* has_meaningful_content, the next step of the extraction is the HTML
\* scrape for the same identifier, whether or not the document has an
\* abstract: the extraction does not go on to report no full text.
C31_FallbackAfterFailedHeuristic ==
    [][\A x \in XmlOutcomes :
          (FailsHeuristic(x) /\ FtXml(x)) =>
              ftPc' = "html" /\ ftMeta' = ftMeta]_vars

(***************************************************************************)
(* Content validation claims: rejection                                    *)
(***************************************************************************)
\* C32: has_meaningful_content rejects every non-empty section map in which
\* no section that is neither an abstract nor boilerplate is longer than
\* 500 characters, whatever the number and the lengths of the boilerplate
\* sections and whatever the length of the flat text.
C32_RejectsWithoutSubstantialSection ==
    \A result \in hmResult :
        (/\ hmSections # <<>>
         /\ ~\E k \in NonAbstract : ~IsBoilerplate(k) /\ Long(k))
            => ~result

\* Three long boilerplate sections, one of them with a telling word in its
\* name, and a flat text longer than 3000: rejected.
C32_Witness ==
    /\ hmResult = {FALSE}
    /\ hmFlat > 3000
    /\ Len(hmSections) = 3
    /\ \A k \in 1..3 : IsBoilerplate(k) /\ Long(k) /\ ~HmSecs[k].name.abstract
    /\ \E k \in 1..3 : HmSecs[k].name.meaningful

(***************************************************************************)
(* Duplicate resolution claims: the fallback of keep-fulltext              *)
(***************************************************************************)
\* The rows of a duplicate group that keep-recent leaves.
KeepRecentOf(doi) == {r \in strategy_keep_recent(ddBefore, FALSE) : r.doi = doi}

\* C33: applied to a duplicate group in which several rows have full text,
\* or none has, keep-fulltext (keep-most-complete) leaves the row that
\* keep-recent would leave, the one with the newest collection date of the
\* whole group.
C33_FallsBackToKeepRecent ==
    (ddPc = "done" /\ ddApply /\ ddStrategy = "keep-fulltext") =>
        \A doi \in get_duplicate_dois(ddBefore) :
            Cardinality({r \in DupGroup(doi) : HasFullText(r)}) # 1 =>
                /\ RemainingOf(doi) = KeepRecentOf(doi)
                /\ RemainingOf(doi) \subseteq Newest(DupGroup(doi))

(***************************************************************************)
(* Checkpoint claims                                                       *)
(***************************************************************************)
\* The number of completed chunks the persisted statistics cover.
PersistedUpTo ==
    IF ckRows = {} THEN 0
    ELSE CHOOSE k \in {r.at : r \in ckRows} : \A r \in ckRows : r.at <= k

\* C34: the statistics are persisted at every CHECKPOINT_EVERY-th completed
\* chunk and at the final chunk (the save that follows the loop), so at any
\* moment of a run the persisted statistics lag the completed chunks by at
\* most CHECKPOINT_EVERY chunks.
C34_CheckpointPersistsStatistics ==
    /\ \A k \in 1..ckDone : k % CHECKPOINT_EVERY = 0 => \E r \in ckRows : r.at = k
    /\ ckPc = "done" => \E r \in ckRows : r.at = ckTotal /\ r.stats = ckStats
    /\ ckDone - PersistedUpTo <= CHECKPOINT_EVERY

(***************************************************************************)
(* Run statistics claims                                                   *)
(***************************************************************************)
\* What a future has added to a counter: its result once it is consumed.
Applied(c, field) ==
    IF ~futures[c].consumed THEN 0
    ELSE IF Raised(c) THEN (IF field = "failed" THEN Len(Batch(c)) ELSE 0)
    ELSE futures[c].result[field]

AppliedProcessed(c) == Applied(c, "processed")

AppliedFullText(c) == Applied(c, "with_fulltext")

AppliedOpenAlex(c) == Applied(c, "with_openalex")

AppliedFailed(c) == Applied(c, "failed")

AppliedSkipped(c) == Applied(c, "skipped")

\* C35: whatever the order in which the batches complete, each counter of
\* the run statistics is, during the loop and at its end, the sum of the
\* results of the batches consumed so far; no increment is lost and none is
\* applied twice, so the final counters are the sums over all batches.
C35_CountersAreSumsInAnyOrder ==
    mainPc \in {"running", "done"} =>
        /\ nCompleted = Cardinality({c \in 1..Len(futures) : futures[c].consumed})
        /\ stats.total_processed = SumTo(AppliedProcessed, Len(futures))
        /\ stats.with_full_text = SumTo(AppliedFullText, Len(futures))
        /\ stats.with_openalex = SumTo(AppliedOpenAlex, Len(futures))
        /\ stats.failed_pubmed = SumTo(AppliedFailed, Len(futures))
        /\ stats.total_skipped = SumTo(AppliedSkipped, Len(futures))
        /\ mainPc = "done" => \A c \in 1..Len(futures) : futures[c].consumed

\* The second batch completed and was consumed before the first: its
\* counters are in the statistics, those of the first are still to come.
C35_Witness ==
    /\ mainPc = "running"
    /\ Len(futures) = 2
    /\ futures[2].consumed
    /\ futures[2].st = "returned"
    /\ futures[2].result.processed = 1
    /\ futures[1].st = "returned"
    /\ ~futures[1].consumed
    /\ futures[1].result.processed >= 1
    /\ stats.total_processed = 1

(***************************************************************************)
(* Store mutex claims                                                      *)
(***************************************************************************)
\* The thread is between the start of its statement and the end of its
\* commit on the shared connection.
Writing(t) == mxPc[t] \in {"execute", "commit"}

\* C36: every write method of a store instance (insert_paper,
\* add_failed_doi, insert_query, save_collection_stats) runs its statement
\* and its commit while holding the instance's mutex, so no two writes on
\* the shared connection overlap.
C36_WritesHoldTheMutex ==
    /\ \A t \in MxThreads : Writing(t) => mxLock = t
    /\ \A t, u \in MxThreads : (Writing(t) /\ Writing(u)) => t = u

(***************************************************************************)
(* Full-text flag claims                                                   *)
(***************************************************************************)
\* has_full_text of a row: full_text or full_text_sections is not empty.
RowHasFullText(r) == ~Falsy(r.full_text) \/ r.sections # NULL

\* C37: every row a run has persisted has its flag is_full_text_pmc set iff
\* its full_text or its full_text_sections is not empty, and the
\* with-full-text counter of a run into an empty store counts exactly the
\* rows that have full text: a record whose extraction yielded nothing is
\* neither stored nor counted as having full text.
C37_FlagIffFullText ==
    /\ \A r \in papers : r.is_ft <=> RowHasFullText(r)
    /\ (mainPc = "done" /\ runNo = 1) =>
           stats.with_full_text = Cardinality({r \in papers : RowHasFullText(r)})

(***************************************************************************)
(* Incomplete list claims                                                  *)
(***************************************************************************)
\* The row is in the failed_dois table (the reason written is the constant
\* "No PMC full text available").
Incomplete(r) == \E f \in failed_dois : f.pmid = r.pmid

\* C38: every record persisted without full text has a row with a reason in
\* the incomplete list (failed_dois), and is counted as processed, not as
\* failed: after a run into an empty store, with no task raised, the
\* processed counter is the number of rows and the failed counter at most
\* the number of ids that did not get a row.
C38_IncompleteRecorded ==
    /\ \A r \in papers : ~RowHasFullText(r) => Incomplete(r)
    /\ (mainPc = "done" /\ runNo = 1 /\ \A c \in 1..Len(futures) : ~Raised(c)) =>
           /\ stats.total_processed = Cardinality(papers)
           /\ stats.failed_pubmed <= Len(pmid_list) - Cardinality(papers)


(***************************************************************************)
(* Metadata fetch claims                                                   *)
(***************************************************************************)
\* The calls of extract_pubmed_metadata made for an id.
CallsFor(pmid) == {k \in 1..Len(mfCalls) : mfCalls[k].pmid = pmid}

\* C39: when the fetch phase of process_batch is over, every new id that
\* was absent from the bulk response has had exactly one individual fetch,
\* no id present in the bulk response has had one, and the ids counted
\* failed are exactly those for which neither the bulk nor the individual
\* fetch gave a record, each counted once.
C39_MissingRetriedOnce ==
    /\ \A k \in 1..Len(mfCalls) : mfCalls[k].pmid \notin mfBulk
    /\ mfPc = "fetched" =>
          /\ \A pmid \in Range(mfNew) \ mfBulk : Cardinality(CallsFor(pmid)) = 1
          /\ mfFailed = Cardinality({pmid \in Range(mfNew) \ mfBulk :
                                       \A k \in CallsFor(pmid) : ~mfCalls[k].found})


(***************************************************************************)
(* Gateway claims: termination                                             *)
(***************************************************************************)
\* C40: every gateway call terminates, in safe_ncbi_call and in
\* enrich_with_openalex alike: whatever the upstream answers (success,
\* rate-limited, transient error, not found), the operation is attempted at
\* most MAX_RETRIES times, and a call under way comes to its return.
C40_GatewayCallTerminates ==
    /\ [](Len(gwHist) <= MAX_RETRIES /\ (gwPc = "done" => gwResult # "pending"))
    /\ (gwPc = "try") ~> (gwPc = "done")

\* A call of safe_ncbi_call answered by a rate-limit signal, a transient
\* error and a 404 in turn, never by a success: it has returned None after
\* MAX_RETRIES attempts.
C40_Witness ==
    /\ gwPc = "done"
    /\ gwKind = "ncbi"
    /\ Len(gwHist) = MAX_RETRIES
    /\ gwHist[1] = "e429"
    /\ gwHist[2] = "eOther"
    /\ gwHist[3] = "e404"
    /\ gwHist[MAX_RETRIES] = "e429"
    /\ gwResult = "None"

====
